---- MODULE Spec2Model ----
(***************************************************************************)
(* Model of package memfis: an immutable in-memory filesystem built from   *)
(* a list of (name, content) pairs, its path utilities, its construction   *)
(* (MakeMemFS), path resolution (open), the query operations, and the      *)
(* file and directory handles.                                             *)
(*                                                                         *)
(* Go strings are modelled as sequences of byte values (0..255), so that   *)
(* byte-wise comparison, prefix tests and slicing behave as in the code.   *)
(* Go's s[i:j] is Slice(s, i, j) with 0-based indices.                     *)
(***************************************************************************)
EXTENDS Integers, Sequences, FiniteSets, TLC

\* const pathSeparator = '/'
pathSeparator == 47

\* ---------------------------------------------------------------------
\* Go string primitives
\* ---------------------------------------------------------------------

\* s[i:j] of Go (0-based, j exclusive)
Slice(s, i, j) == SubSeq(s, i + 1, j)

\* s[i:] of Go
SliceFrom(s, i) == SubSeq(s, i + 1, Len(s))

\* strings.IndexByte(s, c): index of the first c in s, or -1
IndexByte(s, c) ==
    IF \E k \in 1..Len(s) : s[k] = c
    THEN (CHOOSE k \in 1..Len(s) : s[k] = c /\ \A j \in 1..(k - 1) : s[j] # c) - 1
    ELSE -1

\* strings.LastIndexByte(s, c): index of the last c in s, or -1
LastIndexByte(s, c) ==
    IF \E k \in 1..Len(s) : s[k] = c
    THEN (CHOOSE k \in 1..Len(s) : s[k] = c /\ \A j \in (k + 1)..Len(s) : s[j] # c) - 1
    ELSE -1

\* strings.HasPrefix(s, prefix)
HasPrefix(s, prefix) ==
    Len(s) >= Len(prefix) /\ SubSeq(s, 1, Len(prefix)) = prefix

\* cmp.Compare on strings: byte-wise lexicographic order, -1 / 0 / +1
RECURSIVE Compare(_, _)
Compare(a, b) ==
    IF a = <<>> /\ b = <<>> THEN 0
    ELSE IF a = <<>> THEN -1
    ELSE IF b = <<>> THEN 1
    ELSE IF a[1] < b[1] THEN -1
    ELSE IF a[1] > b[1] THEN 1
    ELSE Compare(Tail(a), Tail(b))

Min(x, y) == IF x < y THEN x ELSE y

\* ---------------------------------------------------------------------
\* Path utilities
\* ---------------------------------------------------------------------

\* nextSegment returns the next part of path up to and including a "/".
nextSegment(path) ==
    LET i == IndexByte(path, pathSeparator)
    IN  IF i < 0 THEN path ELSE Slice(path, 0, i + 1)

\* isDir reports if path is a directory
isDir(path) == path = <<>> \/ path[Len(path)] = pathSeparator

\* toDir converts a name to a directory path in memfs representation
toDir(path) ==
    IF path = <<>> THEN path
    ELSE IF path[Len(path)] = pathSeparator THEN path
    ELSE Append(path, pathSeparator)

\* fsPath translates the internal representation to the io/fs one
fsPath(path) ==
    IF path = <<>> THEN <<46>>
    ELSE IF path[Len(path)] = pathSeparator THEN Slice(path, 0, Len(path) - 1)
    ELSE path

\* the element loop of io/fs.ValidPath: every "/"-separated element must be
\* non-empty and neither "." nor ".."
RECURSIVE fsValidElems(_)
fsValidElems(name) ==
    LET i    == IndexByte(name, pathSeparator)
        e    == IF i < 0 THEN Len(name) ELSE i
        elem == Slice(name, 0, e)
    IN  IF elem = <<>> \/ elem = <<46>> \/ elem = <<46, 46>> THEN FALSE
        ELSE IF e = Len(name) THEN TRUE
        ELSE fsValidElems(SliceFrom(name, e + 1))

\* io/fs.ValidPath as called by validPath (all modelled bytes are ASCII)
fsValidPath(name) == name = <<46>> \/ fsValidElems(name)

\* validPath reports if a path in the internal representation is valid
validPath(path) ==
    IF path = <<46>> THEN FALSE ELSE fsValidPath(fsPath(path))

\* lenCommon retrieves the index of the first byte different in a and b
RECURSIVE lenCommonFrom(_, _, _)
lenCommonFrom(a, b, i) ==
    IF i < Min(Len(a), Len(b)) /\ a[i + 1] = b[i + 1]
    THEN lenCommonFrom(a, b, i + 1)
    ELSE i

lenCommon(a, b) == lenCommonFrom(a, b, 0)

\* commonPath retrieves the common directory prefix including the trailing '/'
commonPath(a, b) ==
    Slice(a, 0, LastIndexByte(Slice(a, 0, lenCommon(a, b)), pathSeparator) + 1)

\* the carry loop of increment over the byte positions i, i-1, ..., 0
\* (b is 1-based here: Go's b[i] is b[i + 1])
RECURSIVE incrementFrom(_, _, _)
incrementFrom(s, b, i) ==
    IF i < 0 THEN [str |-> b, ok |-> TRUE]
    ELSE IF b[i + 1] = 255
         THEN IF i = 0 THEN [str |-> s, ok |-> FALSE]
              ELSE incrementFrom(s, [b EXCEPT ![i + 1] = 0], i - 1)
         ELSE [str |-> [b EXCEPT ![i + 1] = b[i + 1] + 1], ok |-> TRUE]

\* increment a string s by 1 based on its binary representation
increment(s) == incrementFrom(s, s, Len(s) - 1)

\* the inner loop of walk for one name n, starting at offset o: the directory
\* prefixes of n beyond o, in the order fn is called with them
RECURSIVE walkDirs(_, _)
walkDirs(n, o) ==
    LET i == IndexByte(SliceFrom(n, o), pathSeparator)
    IN  IF i < 0 THEN <<>>
        ELSE <<Slice(n, 0, o + i + 1)>> \o walkDirs(n, o + i + 1)

\* the outer loop of walk from entry k on, with the current prevdir
RECURSIVE walkFrom(_, _, _)
walkFrom(prevdir, fs, k) ==
    IF k > Len(fs) THEN <<>>
    ELSE LET n    == fs[k].name
             pd   == commonPath(prevdir, n)
             dirs == walkDirs(n, Len(pd))
             last == IF dirs = <<>> THEN pd ELSE dirs[Len(dirs)]
         IN  dirs \o <<n>> \o walkFrom(last, fs, k + 1)

\* walk all directories and files and call fn with their rootpath: the
\* sequence of arguments fn is called with, in call order
walk(rootpath, fs) == walkFrom(rootpath, fs, 1)

\* ---------------------------------------------------------------------
\* Construction
\* ---------------------------------------------------------------------

\* insertion with the arguments of the comparison swapped
RECURSIVE insertStable_swapped(_, _)
insertStable_swapped(sorted, f) ==
    IF sorted = <<>> THEN <<f>>
    ELSE IF Compare(f.name, sorted[Len(sorted)].name) <= 0 THEN Append(sorted, f)
    ELSE Append(insertStable_swapped(SubSeq(sorted, 1, Len(sorted) - 1), f),
                sorted[Len(sorted)])

\* insertion of f into a sorted sequence, after every element that does not
\* compare greater (stability)
RECURSIVE insertStable(_, _)
insertStable(sorted, f) ==
    IF sorted = <<>> THEN <<f>>
    ELSE IF Compare(sorted[Len(sorted)].name, f.name) <= 0 THEN Append(sorted, f)
    ELSE Append(insertStable(SubSeq(sorted, 1, Len(sorted) - 1), f), sorted[Len(sorted)])

\* slices.SortStableFunc(fs, cmp.Compare on GetName)
RECURSIVE SortStable(_)
SortStable(fs) ==
    IF fs = <<>> THEN <<>>
    ELSE insertStable(SortStable(SubSeq(fs, 1, Len(fs) - 1)), fs[Len(fs)])

\* the validation loop of MakeMemFS from entry k on: the first error, or "nil"
RECURSIVE validateFrom(_, _)
validateFrom(fs, k) ==
    IF k > Len(fs) THEN "nil"
    ELSE IF isDir(fs[k].name) /\ Len(fs[k].content) # 0 THEN "dirHasContent"
    ELSE IF ~validPath(fs[k].name) THEN "unsupportedName"
    ELSE validateFrom(fs, k + 1)

\* the callback MakeMemFS hands to walk, folded over the calls from k on;
\* pn is the previous rootpath, the result is the final value of dupe
RECURSIVE dupeScan(_, _, _)
dupeScan(calls, k, pn) ==
    IF k > Len(calls) THEN FALSE
    ELSE LET rootpath == calls[k]
         IN  IF pn = rootpath THEN TRUE
             ELSE IF isDir(rootpath) /\ Slice(rootpath, 0, Len(rootpath) - 1) = pn THEN TRUE
             ELSE dupeScan(calls, k + 1, rootpath)

\* a memFS value
memFS(files, rootpath) == [files |-> files, rootpath |-> rootpath]

\* MakeMemFS with the sort left out
MakeMemFS_unsorted(files) ==
    LET verr == validateFrom(files, 1)
    IN  IF verr # "nil" THEN [err |-> verr, fs |-> memFS(<<>>, <<>>)]
        ELSE IF dupeScan(walk(<<>>, files), 1, <<>>)
        THEN [err |-> "notUnique", fs |-> memFS(<<>>, <<>>)]
        ELSE [err |-> "nil", fs |-> memFS(files, <<>>)]

\* MakeMemFS: the error ("nil" on success) and the store
MakeMemFS(files) ==
    LET verr == validateFrom(files, 1)
    IN  IF verr # "nil" THEN [err |-> verr, fs |-> memFS(<<>>, <<>>)]
        ELSE IF Len(files) <= 1 THEN [err |-> "nil", fs |-> memFS(files, <<>>)]
        ELSE LET sorted == SortStable(files)
             IN  IF dupeScan(walk(<<>>, sorted), 1, <<>>)
                 THEN [err |-> "notUnique", fs |-> memFS(<<>>, <<>>)]
                 ELSE [err |-> "nil", fs |-> memFS(sorted, <<>>)]

\* ---------------------------------------------------------------------
\* Path resolution
\* ---------------------------------------------------------------------

\* root that takes the path as it is, without the rootpath of the view
root_withoutRootpath(m, path) == IF path = <<46>> THEN m.rootpath ELSE path

\* memFS.root
root(m, path) == IF path = <<46>> THEN m.rootpath ELSE m.rootpath \o path

\* memFS.rootdir
rootdir(m, path) == toDir(root(m, path))

\* the loop of slices.BinarySearchFunc over files[i..j) (0-based)
RECURSIVE bsearch(_, _, _, _)
bsearch(files, seek, i, j) ==
    IF i < j
    THEN LET h == (i + j) \div 2
         IN  IF Compare(files[h + 1].name, seek) < 0
             THEN bsearch(files, seek, h + 1, j)
             ELSE bsearch(files, seek, i, h)
    ELSE i

\* memFS.find: the index rootpath would be found at and whether it exists
find(m, rootpath) ==
    LET i == bsearch(m.files, rootpath, 0, Len(m.files))
    IN  [idx   |-> i,
         found |-> i < Len(m.files) /\ Compare(m.files[i + 1].name, rootpath) = 0]

\* makeFile: a fresh file handle over an entry
makeFile(file) ==
    [file |-> file,
     name |-> SliceFrom(file.name, LastIndexByte(file.name, pathSeparator) + 1),
     ridx |-> 0]

NoFile == [name |-> <<>>, content |-> <<>>]
NoFS   == memFS(<<>>, <<>>)

\* open without the upper bound of the directory's range
open_noUpperBound(m, rootpath) ==
    IF rootpath = <<>> THEN [kind |-> "dir", file |-> NoFile, fs |-> m, err |-> "nil"]
    ELSE LET l        == find(m, rootpath)
             low      == l.idx
             numFiles == Len(m.files)
         IN  IF l.found
             THEN [kind |-> "file", file |-> m.files[low + 1], fs |-> NoFS, err |-> "nil"]
             ELSE IF numFiles <= low \/ ~HasPrefix(m.files[low + 1].name, rootpath)
             THEN [kind |-> "none", file |-> NoFile, fs |-> NoFS, err |-> "ErrNotExist"]
             ELSE [kind |-> "dir", file |-> NoFile,
                   fs   |-> memFS(Slice(m.files, low, numFiles), toDir(rootpath)),
                   err  |-> "nil"]

\* memFS.open: kind "file" (the *memFile), "dir" (the *memFS) or "none"
open(m, rootpath) ==
    IF rootpath = <<>> THEN [kind |-> "dir", file |-> NoFile, fs |-> m, err |-> "nil"]
    ELSE LET l        == find(m, rootpath)
             low      == l.idx
             numFiles == Len(m.files)
         IN  IF l.found
             THEN [kind |-> "file", file |-> m.files[low + 1], fs |-> NoFS, err |-> "nil"]
             ELSE IF numFiles <= low \/ ~HasPrefix(m.files[low + 1].name, rootpath)
             THEN [kind |-> "none", file |-> NoFile, fs |-> NoFS, err |-> "ErrNotExist"]
             ELSE LET inc  == increment(rootpath)
                      high == IF inc.ok THEN find(m, inc.str).idx ELSE numFiles
                  IN  [kind |-> "dir", file |-> NoFile,
                       fs   |-> memFS(Slice(m.files, low, high), toDir(rootpath)),
                       err  |-> "nil"]

\* ---------------------------------------------------------------------
\* Metadata
\* ---------------------------------------------------------------------

\* fileSize for a File that is no FileSizer
fileSize(f) == Len(f.content)

\* makeRootDir
makeRootDir(rootpath) ==
    IF rootpath = <<>> THEN [rootpath |-> <<>>, pidx |-> 0]
    ELSE [rootpath |-> rootpath,
          pidx     |-> LastIndexByte(Slice(rootpath, 0, Len(rootpath) - 1), pathSeparator) + 1]

\* memDir.Name
memDirName(d) ==
    LET ns == nextSegment(SliceFrom(d.rootpath, d.pidx))
    IN  IF ns = <<>> THEN <<46>> ELSE Slice(ns, 0, Len(ns) - 1)

\* the permission bits of modeFile (0o640) and of modeDir (0o750)
permFile == 416
permDir == 488

\* modeFile, and modeDir = fs.ModeDir | 0o750: the type bit and the permissions
modeFile == [dir |-> FALSE, perm |-> permFile]
modeDir == [dir |-> TRUE, perm |-> permDir]

\* what a memFile reports as fs.FileInfo / fs.DirEntry
fileInfo(f) ==
    [isDir |-> FALSE, name |-> f.name, size |-> fileSize(f.file), path |-> f.file.name,
     mode |-> modeFile]

\* what a memDir reports as fs.FileInfo / fs.DirEntry
dirInfo(d) ==
    [isDir |-> TRUE, name |-> memDirName(d), size |-> 0, path |-> d.rootpath,
     mode |-> modeDir]

NoInfo == [isDir |-> FALSE, name |-> <<>>, size |-> 0, path |-> <<>>,
           mode |-> [dir |-> FALSE, perm |-> 0]]

\* ---------------------------------------------------------------------
\* Directory iteration
\* ---------------------------------------------------------------------

\* the zero dirCursor
ZeroCursor == [prev |-> <<>>, idx |-> 0]

\* the scan loop of dirEntries: ne is the length of entries at entry
RECURSIVE dirScan(_, _, _, _, _)
dirScan(m, entries, dc, n, ne) ==
    IF ~(dc.idx < Len(m.files)) THEN [entries |-> entries, dc |-> dc, err |-> "nil"]
    ELSE IF n > 0 /\ Len(entries) = ne + n
    THEN [entries |-> entries, dc |-> dc, err |-> "nil"]
    ELSE LET f  == m.files[dc.idx + 1]
             fn == f.name
             rp == m.rootpath
         IN  IF ~HasPrefix(fn, rp)
             THEN [entries |-> <<>>, dc |-> dc, err |-> "errChangedRoot"]
             ELSE LET rest == SliceFrom(fn, Len(rp))
                      next == nextSegment(rest)
                  IN  IF dc.prev = next
                      THEN dirScan(m, entries, [dc EXCEPT !.idx = @ + 1], n, ne)
                      ELSE IF isDir(next)
                      THEN dirScan(m,
                                   Append(entries,
                                          dirInfo([rootpath |-> Slice(fn, 0, Len(rp) + Len(next)),
                                                   pidx     |-> Len(rp)])),
                                   [prev |-> next, idx |-> dc.idx + 1], n, ne)
                      ELSE dirScan(m, Append(entries, fileInfo(makeFile(f))),
                                   [prev |-> next, idx |-> dc.idx + 1], n, ne)

\* memFS.dirEntries
dirEntries(m, entries, dc, n) ==
    IF dc.idx < 0 \/ dc.idx > Len(m.files)
    THEN [entries |-> <<>>, dc |-> dc, err |-> "ErrInvalid"]
    ELSE IF dc.idx = Len(m.files)
    THEN [entries |-> <<>>, dc |-> [prev |-> <<>>, idx |-> dc.idx],
          err |-> IF n <= 0 THEN "nil" ELSE "EOF"]
    ELSE dirScan(m, entries, dc, n, Len(entries))

\* ---------------------------------------------------------------------
\* Query operations of the filesystem
\* ---------------------------------------------------------------------

\* memFS.Sub: the view and the error
Sub(m, dir) ==
    LET rd == rootdir(m, dir)
    IN  IF rd # <<>> /\ ~validPath(rd) THEN [fs |-> NoFS, err |-> "ErrInvalid"]
        ELSE LET o == open(m, rd)
             IN  IF o.kind # "dir" \/ o.err # "nil"
                 THEN [fs |-> NoFS, err |-> "ErrNotExist"]
                 ELSE [fs |-> o.fs, err |-> "nil"]

\* memFS.Stat: the file info and the error
Stat(m, name) ==
    LET o == open(m, root(m, name))
    IN  IF o.err # "nil" THEN [info |-> NoInfo, err |-> o.err]
        ELSE IF o.kind = "dir"
        THEN [info |-> dirInfo(makeRootDir(o.fs.rootpath)), err |-> "nil"]
        ELSE [info |-> fileInfo(makeFile(o.file)), err |-> "nil"]

\* ReadFile that tests the error of open only, not that a file was found
ReadFile_noKindCheck(m, name) ==
    LET o == open(m, root(m, name))
    IN  IF o.err # "nil" THEN [data |-> <<>>, err |-> "ErrNotExist"]
        ELSE [data |-> o.file.content, err |-> "nil"]

\* memFS.ReadFile: the content and the error
ReadFile(m, name) ==
    LET o == open(m, root(m, name))
    IN  IF o.kind # "file" THEN [data |-> <<>>, err |-> "ErrNotExist"]
        ELSE [data |-> o.file.content, err |-> "nil"]

\* memFS.ReadDir: the entries and the error
ReadDir(m, name) ==
    LET o == open(m, root(m, name))
    IN  IF o.kind # "dir" THEN [entries |-> <<>>, err |-> "ErrNotExist"]
        ELSE LET r == dirEntries(o.fs, <<>>, ZeroCursor, 0)
             IN  [entries |-> r.entries, err |-> r.err]

\* path.Match for patterns made of literal bytes and "*" (any run of
\* non-separator bytes); such patterns are never malformed
RECURSIVE pathMatch(_, _)
pathMatch(pattern, name) ==
    IF pattern = <<>> THEN name = <<>>
    ELSE IF pattern[1] = 42
    THEN \E k \in 0..Len(name) :
            /\ \A j \in 1..k : name[j] # pathSeparator
            /\ pathMatch(Tail(pattern), SliceFrom(name, k))
    ELSE name # <<>> /\ name[1] = pattern[1] /\ pathMatch(Tail(pattern), Tail(name))

\* the callback of Glob folded over the calls of walk from k on
RECURSIVE globCollect(_, _, _, _)
globCollect(calls, k, rpl, pattern) ==
    IF k > Len(calls) THEN <<>>
    ELSE LET n == fsPath(SliceFrom(calls[k], rpl))
         IN  (IF pathMatch(pattern, n) THEN <<n>> ELSE <<>>)
             \o globCollect(calls, k + 1, rpl, pattern)

\* memFS.Glob for a well-formed pattern
Glob(m, pattern) ==
    [matches |-> globCollect(walk(m.rootpath, m.files), 1, Len(m.rootpath), pattern),
     err     |-> "nil"]

\* ---------------------------------------------------------------------
\* File handle (memFile)
\* ---------------------------------------------------------------------

\* memFile.isClosed
isClosed(f) == f.ridx < 0

\* memFile.Close: the handle afterwards (the error is always nil)
fileClose(f) == [f EXCEPT !.ridx = -1]

\* memFile.Stat
fileStat(f) ==
    IF isClosed(f) THEN [info |-> NoInfo, err |-> "ErrClosed"]
    ELSE [info |-> fileInfo(f), err |-> "nil"]

\* Read that leaves the cursor where it was
fileRead_noAdvance(f, rlen) ==
    IF isClosed(f) THEN [f |-> f, data |-> <<>>, err |-> "ErrClosed"]
    ELSE LET data == f.file.content
         IN  IF f.ridx >= Len(data) THEN [f |-> f, data |-> <<>>, err |-> "EOF"]
             ELSE LET n == Min(rlen, Len(data) - f.ridx)
                  IN  [f    |-> f,
                       data |-> Slice(data, f.ridx, f.ridx + n),
                       err  |-> "nil"]

\* memFile.Read into a buffer of length rlen
fileRead(f, rlen) ==
    IF isClosed(f) THEN [f |-> f, data |-> <<>>, err |-> "ErrClosed"]
    ELSE LET data == f.file.content
         IN  IF f.ridx >= Len(data) THEN [f |-> f, data |-> <<>>, err |-> "EOF"]
             ELSE LET n == Min(rlen, Len(data) - f.ridx)
                  IN  [f    |-> [f EXCEPT !.ridx = @ + n],
                       data |-> Slice(data, f.ridx, f.ridx + n),
                       err  |-> "nil"]

\* ReadAt that takes the offset relative to the read cursor
fileReadAt_fromCursor(f, rlen, off) ==
    IF off < 0 THEN [data |-> <<>>, err |-> "errNegativeOffset"]
    ELSE IF isClosed(f) THEN [data |-> <<>>, err |-> "ErrClosed"]
    ELSE LET data == f.file.content
             o    == f.ridx + off
         IN  IF o > Len(data) THEN [data |-> <<>>, err |-> "ErrUnexpectedEOF"]
             ELSE LET n == Min(rlen, Len(data) - o)
                  IN  [data |-> Slice(data, o, o + n),
                       err  |-> IF n < rlen THEN "EOF" ELSE "nil"]

\* memFile.ReadAt into a buffer of length rlen at offset off
fileReadAt(f, rlen, off) ==
    IF off < 0 THEN [data |-> <<>>, err |-> "errNegativeOffset"]
    ELSE IF isClosed(f) THEN [data |-> <<>>, err |-> "ErrClosed"]
    ELSE LET data == f.file.content
         IN  IF off > Len(data) THEN [data |-> <<>>, err |-> "ErrUnexpectedEOF"]
             ELSE LET n == Min(rlen, Len(data) - off)
                  IN  [data |-> Slice(data, off, off + n),
                       err  |-> IF n < rlen THEN "EOF" ELSE "nil"]

\* memFile.WriteTo a sink that accepts at most cap bytes of one write
fileWriteTo(f, cap) ==
    IF isClosed(f) THEN [f |-> f, data |-> <<>>, err |-> "ErrClosed"]
    ELSE LET data == f.file.content
             i    == Min(Len(data), cap)
         IN  [f    |-> [f EXCEPT !.ridx = @ + i],
              data |-> Slice(data, 0, i),
              err  |-> IF i < Len(data) THEN "sinkError" ELSE "nil"]

\* Seek without the test against the content length
fileSeek_noUpperCheck(f, offset, whence) ==
    IF isClosed(f) THEN [f |-> f, n |-> 0, err |-> "ErrClosed"]
    ELSE IF whence \notin {0, 1, 2} THEN [f |-> f, n |-> 0, err |-> "ErrInvalid"]
    ELSE LET data == f.file.content
             ridx == CASE whence = 0 -> offset
                       [] whence = 1 -> f.ridx + offset
                       [] whence = 2 -> Len(data) + offset
         IN  IF ridx < 0 THEN [f |-> f, n |-> 0, err |-> "ErrInvalid"]
             ELSE [f |-> [f EXCEPT !.ridx = ridx], n |-> ridx, err |-> "nil"]

\* memFile.Seek: whence 0 = io.SeekStart, 1 = io.SeekCurrent, 2 = io.SeekEnd
fileSeek(f, offset, whence) ==
    IF isClosed(f) THEN [f |-> f, n |-> 0, err |-> "ErrClosed"]
    ELSE IF whence \notin {0, 1, 2} THEN [f |-> f, n |-> 0, err |-> "ErrInvalid"]
    ELSE LET data == f.file.content
             ridx == CASE whence = 0 -> offset
                       [] whence = 1 -> f.ridx + offset
                       [] whence = 2 -> Len(data) + offset
         IN  IF ridx < 0 \/ ridx > Len(data) THEN [f |-> f, n |-> 0, err |-> "ErrInvalid"]
             ELSE [f |-> [f EXCEPT !.ridx = ridx], n |-> ridx, err |-> "nil"]

\* ---------------------------------------------------------------------
\* Directory handle (memReadableDir)
\* ---------------------------------------------------------------------

\* memReadableDir.closed
closed(d) == d.dc.idx < 0

\* memReadableDir.Stat
dirStat(d) ==
    IF closed(d) THEN [info |-> NoInfo, err |-> "errStatClosed"]
    ELSE [info |-> dirInfo(makeRootDir(d.fs.rootpath)), err |-> "nil"]

\* Read that signals the end of the data instead of a directory
dirRead_eof(d) ==
    IF closed(d) THEN [n |-> 0, err |-> "errClosed"]
    ELSE [n |-> 0, err |-> "EOF"]

\* memReadableDir.Read
dirRead(d) ==
    IF closed(d) THEN [n |-> 0, err |-> "errClosed"]
    ELSE [n |-> 0, err |-> "EISDIR"]

\* ResetReadDir that leaves a closed handle as it is
ResetReadDir_unlessClosed(d) == IF d.dc.idx < 0 THEN d ELSE [d EXCEPT !.dc = ZeroCursor]

\* memReadableDir.ResetReadDir
ResetReadDir(d) == [d EXCEPT !.dc = ZeroCursor]

\* Seek that resets the cursor of a closed handle too
dirSeek_noClosedCheck(d, offset, whence) == [d |-> ResetReadDir(d), n |-> 0, err |-> "nil"]

\* memReadableDir.Seek
dirSeek(d, offset, whence) ==
    IF closed(d) THEN [d |-> d, n |-> 0, err |-> "errClosed"]
    ELSE [d |-> ResetReadDir(d), n |-> 0, err |-> "nil"]

\* memReadableDir.Close
dirClose(d) ==
    IF closed(d) THEN [d |-> d, err |-> "errClosed"]
    ELSE [d |-> [d EXCEPT !.dc.idx = -1], err |-> "nil"]

\* memReadableDir.ReadDir
dirReadDir(d, n) ==
    IF closed(d) THEN [d |-> d, entries |-> <<>>, err |-> "errClosed"]
    ELSE LET r == dirEntries(d.fs, <<>>, d.dc, n)
         IN  IF r.err # "nil" THEN [d |-> d, entries |-> <<>>, err |-> r.err]
             ELSE [d |-> [d EXCEPT !.dc = r.dc], entries |-> r.entries, err |-> "nil"]

\* memFS.Open: the handle ("file" or "dir") and the error
Open(m, name) ==
    LET o == open(m, root(m, name))
    IN  IF o.err # "nil"
        THEN [kind |-> "none", f |-> makeFile(NoFile), d |-> [fs |-> NoFS, dc |-> ZeroCursor],
              err |-> o.err]
        ELSE IF o.kind = "dir"
        THEN [kind |-> "dir", f |-> makeFile(NoFile), d |-> [fs |-> o.fs, dc |-> ZeroCursor],
              err |-> "nil"]
        ELSE [kind |-> "file", f |-> makeFile(o.file), d |-> [fs |-> NoFS, dc |-> ZeroCursor],
              err |-> "nil"]

\* ---------------------------------------------------------------------
\* Bounds and input domains
\* ---------------------------------------------------------------------

\* most entries handed to MakeMemFS
MaxFiles == 3
\* largest page size n handed to ReadDir (the smallest is -1)
MaxPage == 2
\* largest buffer length, offset and sink capacity handed to a file handle
MaxBuf == 2
\* largest value the read cursor of a file handle is followed to
MaxRidx == 4

Entry(name, content) == [name |-> name, content |-> content]

\* The entries MakeMemFS is called with.  Bytes: "." = 46, "/" = 47,
\* "a" = 97, "b" = 98, "x" = 120, "y" = 121.
FilePool ==
    { Entry(<<97>>, <<120>>),                  \* "a"     : "x"
      Entry(<<97>>, <<121>>),                  \* "a"     : "y"
      Entry(<<97, 46>>, <<>>),                 \* "a."    : ""
      Entry(<<97, 47>>, <<>>),                 \* "a/"    : ""   (directory marker)
      Entry(<<97, 47>>, <<120>>),              \* "a/"    : "x"  (marker with content)
      Entry(<<97, 47, 97>>, <<120, 121>>),     \* "a/a"   : "xy"
      Entry(<<97, 47, 98>>, <<121>>),          \* "a/b"   : "y"
      Entry(<<97, 47, 98, 47, 97>>, <<120>>),  \* "a/b/a" : "x"
      Entry(<<98>>, <<>>),                     \* "b"     : ""
      Entry(<<>>, <<>>),                       \* ""      : ""   (root marker)
      Entry(<<46>>, <<120>>) }                 \* "."     : "x"  (invalid name)

Inputs == UNION { [1..k -> FilePool] : k \in 0..MaxFiles }

\* The names handed to Open, Stat, ReadFile, ReadDir and Sub
QueryPaths ==
    { <<46>>,                   \* "."
      <<97>>,                   \* "a"
      <<97, 46>>,               \* "a."
      <<97, 47>>,               \* "a/"
      <<98>>,                   \* "b"
      <<97, 47, 97>>,           \* "a/a"
      <<97, 47, 98>>,           \* "a/b"
      <<98, 47, 97>>,           \* "b/a"
      <<97, 47, 98, 47, 97>>,   \* "a/b/a"
      <<>> }                    \* ""

\* The paths handed to Sub: the query paths and three malformed ones
SubPaths ==
    QueryPaths \cup
    { <<47>>,                   \* "/"
      <<46, 46>>,               \* ".."
      <<46, 47>> }              \* "./"

\* The patterns handed to Glob ("*" = 42)
Patterns ==
    { <<42>>,                   \* "*"
      <<97, 47, 42>>,           \* "a/*"
      <<42, 47, 42>>,           \* "*/*"
      <<97, 42>> }              \* "a*"

PageSizes == -1..MaxPage
BufLens   == 0..MaxBuf
Offsets   == -1..MaxBuf
Whences   == 0..3

\* ---------------------------------------------------------------------
\* envflag: the ARG and the ENV derived from a parameter key
\* ---------------------------------------------------------------------

\* the character classes of the regular expressions, on bytes
isUpper(c) == c \in 65..90
isLower(c) == c \in 97..122
isDigit(c) == c \in 48..57

\* uncamel.ReplaceAllString(key, "-$1"): a "-" before every upper-case letter
RECURSIVE keyToAny(_)
keyToAny(key) ==
    IF key = <<>> THEN <<>>
    ELSE (IF isUpper(key[1]) THEN <<45, key[1]>> ELSE <<key[1]>>) \o keyToAny(Tail(key))

\* the set of bytes that do not start a match of invalidchars
\* ("[^A-Za-z0-9_]+")
validchar(c) == isUpper(c) \/ isLower(c) \/ isDigit(c) \/ c = 95

\* invalidchars.ReplaceAllLiteralString(s, rep): every maximal run of bytes
\* outside A-Za-z0-9_ becomes one rep; inRun = the previous byte was in a run
RECURSIVE replaceInvalid(_, _, _)
replaceInvalid(s, rep, inRun) ==
    IF s = <<>> THEN <<>>
    ELSE IF validchar(s[1]) THEN <<s[1]>> \o replaceInvalid(Tail(s), rep, FALSE)
    ELSE (IF inRun THEN <<>> ELSE rep) \o replaceInvalid(Tail(s), rep, TRUE)

\* leadingdash.ReplaceAllLiteralString(s, ""): the leading "-" removed
RECURSIVE stripLeadingDash(_)
stripLeadingDash(s) ==
    IF s # <<>> /\ s[1] = 45 THEN stripLeadingDash(Tail(s)) ELSE s

\* strings.ToLower and strings.ToUpper on ASCII
ToLower(s) == [i \in 1..Len(s) |-> IF isUpper(s[i]) THEN s[i] + 32 ELSE s[i]]
ToUpper(s) == [i \in 1..Len(s) |-> IF isLower(s[i]) THEN s[i] - 32 ELSE s[i]]

\* Env.keyToArg
keyToArg(e, key) ==
    ToLower(stripLeadingDash(replaceInvalid(keyToAny(key), <<45>>, FALSE)))

\* Env.keyToEnv
keyToEnv(e, key) ==
    ToUpper(replaceInvalid(keyToAny(e.prefix \o key), <<95>>, FALSE))

\* longest parameter key
MaxKeyLen == 3

\* the bytes of the keys: "a", "B", "1", "_", "-" and a byte of a
\* non-ASCII letter
KeyBytes == {97, 66, 49, 95, 45, 195}

Keys == UNION { [1..k -> KeyBytes] : k \in 0..MaxKeyLen }

\* the prefixes of the environments: "" and "p-"
Prefixes == { <<>>, <<112, 45>> }

NoParam == [prefix |-> <<>>, key |-> <<>>, arg |-> <<>>, env |-> <<>>, derived |-> FALSE]

\* ---------------------------------------------------------------------
\* dbfetch: the fetcher and the result set
\* ---------------------------------------------------------------------

\* Fetch(db, query): asStmt false, dst, initCols and yield nil
Fetch == [asStmt |-> FALSE, dst |-> "nil", initCols |-> "nil", yield |-> "nil"]

\* most rows a result set holds
MaxRows == 2

\* an error value: cause names where it came from ("nil" = no error),
\* wrapped = it is a querror around the cause
NoErr == [wrapped |-> FALSE, cause |-> "nil"]
plainErr(cause) == [wrapped |-> FALSE, cause |-> cause]
querror(cause) == [wrapped |-> TRUE, cause |-> cause]

\* a call recorded in the log of a Run
Call(ev, row, ok) == [ev |-> ev, row |-> row, ok |-> ok]

\* a call of Run that has not started: pc = where Run is, f = the fetcher
\* as Run uses it, rows = the rows of the result set, i = the rows rows.Next
\* has delivered, stmt and open = the statement and the rows exist and are
\* not closed, iterErr = what rows.Err reports, err = the named result,
\* log = the calls made so far
IdleRun ==
    [pc |-> "idle", f |-> Fetch, rows |-> 0, i |-> 0, stmt |-> FALSE,
     open |-> FALSE, iterErr |-> NoErr, err |-> NoErr, log |-> <<>>]

\* ---------------------------------------------------------------------
\* State
\* ---------------------------------------------------------------------

VARIABLES
    input,   \* the entries MakeMemFS was called with (history variable, kept
             \* while the caller only queries the store, <<>> afterwards)
    made,    \* what MakeMemFS returned: [err, fs]; err = "unbuilt" before the call
    cur,     \* the filesystem the caller holds: the store, or a view from Sub
    at,      \* the directory of the store the caller asked Sub for to get cur
             \* (history variable; <<>> for the store itself)
    h,       \* the handle the caller holds: [kind, f, d, abs]; abs = the path opened
    hist,    \* what happened on the handle since Open
    ret,     \* what the last operation returned
    fetcher, \* the dbfetch fetcher: [asStmt, dst, initCols, yield]
    run,     \* the call of fetcher.Run: where it is, the result set, its calls
    param,   \* an envflag parameter: [prefix, key, arg, env, derived]
    other    \* a second handle the caller holds beside h, with its history

vars == <<input, made, cur, at, h, hist, ret, fetcher, run, param, other>>

NoHandle ==
    [kind |-> "none", f |-> makeFile(NoFile), d |-> [fs |-> NoFS, dc |-> ZeroCursor],
     abs |-> <<>>]

\* hist: ones   = no Seek succeeded since Open and every ReadDir call had n = 1,
\*       got    = the entries ReadDir returned since Open or the last
\*                successful Seek, in order,
\*       reset  = the last ReadDir or Seek on the handle was a successful Seek,
\*       closes = Close was called since Open
NoHist == [ones |-> TRUE, got |-> <<>>, reset |-> FALSE, closes |-> FALSE]

\* no second handle
NoOther == [h |-> NoHandle, hist |-> NoHist]

Ret(op, arg, err, entries, data, info, n) ==
    [op |-> op, arg |-> arg, err |-> err, entries |-> entries, data |-> data,
     info |-> info, n |-> n, closedBefore |-> FALSE, resetBefore |-> FALSE]

\* the result of an operation on the handle; closedBefore = Close had been
\* called on the handle before the operation, resetBefore = the operation
\* came right after a successful Seek
HRet(op, arg, err, entries, data, info, n) ==
    [Ret(op, arg, err, entries, data, info, n) EXCEPT !.closedBefore = hist.closes,
                                                      !.resetBefore = hist.reset]

NoRet == Ret("none", <<>>, "nil", <<>>, <<>>, NoInfo, 0)

Built == made.err = "nil"

Init ==
    /\ input = <<>>
    /\ made = [err |-> "unbuilt", fs |-> NoFS]
    /\ cur = NoFS
    /\ at = <<>>
    /\ h = NoHandle
    /\ hist = NoHist
    /\ ret = NoRet
    /\ fetcher = Fetch
    /\ run = IdleRun
    /\ param = NoParam
    /\ other = NoOther

\* the directory dir names below the directory at names: at and the result
\* are "" for the root and end in "/" otherwise; dir is "." or "" for at itself
JoinDir(dir0, dir) ==
    IF dir = <<46>> \/ dir = <<>> THEN dir0
    ELSE IF dir[Len(dir)] = 47 THEN dir0 \o dir
    ELSE dir0 \o dir \o <<47>>

\* the path of the store that name denotes below the directory dir0
AbsPath(dir0, name) == IF name = <<46>> THEN dir0 ELSE dir0 \o name

\* ---------------------------------------------------------------------
\* Operations
\* ---------------------------------------------------------------------

\* MakeMemFS(files...)
DoMakeMemFS ==
    /\ made.err = "unbuilt"
    /\ \E files \in Inputs :
          LET r == MakeMemFS(files)
          IN  /\ input' = files
              /\ made' = r
              /\ cur' = r.fs
              /\ at' = <<>>
              /\ ret' = Ret("MakeMemFS", <<>>, r.err, <<>>, <<>>, NoInfo, 0)
    /\ UNCHANGED <<h, hist, fetcher, run, param, other>>

\* cur.Stat(name)
DoStat ==
    /\ Built
    /\ \E name \in QueryPaths :
          LET r == Stat(cur, name)
          IN  ret' = Ret("Stat", name, r.err, <<>>, <<>>, r.info, 0)
    /\ UNCHANGED <<input, made, cur, at, h, hist, fetcher, run, param, other>>

\* cur.ReadFile(name)
DoReadFile ==
    /\ Built
    /\ \E name \in QueryPaths :
          LET r == ReadFile(cur, name)
          IN  ret' = Ret("ReadFile", name, r.err, <<>>, r.data, NoInfo, 0)
    /\ UNCHANGED <<input, made, cur, at, h, hist, fetcher, run, param, other>>

\* cur.ReadDir(name)
DoReadDir ==
    /\ Built
    /\ \E name \in QueryPaths :
          LET r == ReadDir(cur, name)
          IN  ret' = Ret("ReadDir", name, r.err, r.entries, <<>>, NoInfo, 0)
    /\ UNCHANGED <<input, made, cur, at, h, hist, fetcher, run, param, other>>

\* cur.Glob(pattern)
DoGlob ==
    /\ Built
    /\ \E pattern \in Patterns :
          LET r == Glob(cur, pattern)
          IN  ret' = Ret("Glob", pattern, r.err, r.matches, <<>>, NoInfo, 0)
    /\ UNCHANGED <<input, made, cur, at, h, hist, fetcher, run, param, other>>

\* cur.Sub(dir); the caller goes on with the view when there is one
DoSub ==
    /\ Built
    /\ \E dir \in SubPaths :
          LET r == Sub(cur, dir)
          IN  /\ cur' = IF r.err = "nil" THEN r.fs ELSE cur
              /\ at' = IF r.err = "nil" THEN JoinDir(at, dir) ELSE at
              /\ ret' = Ret("Sub", dir, r.err, <<>>, <<>>, NoInfo, 0)
    /\ input' = <<>>
    /\ UNCHANGED <<made, h, hist, fetcher, run, param, other>>

\* cur.Open(name); the caller keeps the handle when there is one
DoOpen ==
    /\ Built
    /\ \E name \in QueryPaths :
          LET r == Open(cur, name)
          IN  /\ h' = IF r.err = "nil"
                      THEN [kind |-> r.kind, f |-> r.f, d |-> r.d,
                            abs |-> AbsPath(at, name)]
                      ELSE h
              /\ hist' = IF r.err = "nil" THEN NoHist ELSE hist
              /\ ret' = Ret("Open", name, r.err, <<>>, <<>>, NoInfo, 0)
    /\ input' = <<>>
    /\ UNCHANGED <<made, cur, at, fetcher, run, param, other>>

\* h.ReadDir(n) on a directory handle
DoDirReadDir ==
    /\ h.kind = "dir"
    /\ \E n \in PageSizes :
          LET r == dirReadDir(h.d, n)
          IN  /\ h' = [h EXCEPT !.d = r.d]
              /\ hist' = [hist EXCEPT !.ones = @ /\ n = 1,
                                      !.got = @ \o r.entries,
                                      !.reset = FALSE]
              /\ ret' = HRet("Dir.ReadDir", n, r.err, r.entries, <<>>, NoInfo, 0)
    /\ UNCHANGED <<input, made, cur, at, fetcher, run, param, other>>

\* h.Read(buffer) on a directory handle
DoDirRead ==
    /\ h.kind = "dir"
    /\ LET r == dirRead(h.d)
       IN  ret' = HRet("Dir.Read", <<>>, r.err, <<>>, <<>>, NoInfo, r.n)
    /\ UNCHANGED <<input, made, cur, at, h, hist, fetcher, run, param, other>>

\* h.Stat() on a directory handle
DoDirStat ==
    /\ h.kind = "dir"
    /\ LET r == dirStat(h.d)
       IN  ret' = HRet("Dir.Stat", <<>>, r.err, <<>>, <<>>, r.info, 0)
    /\ UNCHANGED <<input, made, cur, at, h, hist, fetcher, run, param, other>>

\* h.Seek(offset, whence) on a directory handle
DoDirSeek ==
    /\ h.kind = "dir"
    /\ \E offset \in Offsets, whence \in Whences :
          LET r == dirSeek(h.d, offset, whence)
          IN  /\ h' = [h EXCEPT !.d = r.d]
              /\ hist' = IF r.err = "nil"
                         THEN [hist EXCEPT !.ones = FALSE, !.got = <<>>, !.reset = TRUE]
                         ELSE hist
              /\ ret' = HRet("Dir.Seek", <<>>, r.err, <<>>, <<>>, NoInfo, r.n)
    /\ UNCHANGED <<input, made, cur, at, fetcher, run, param, other>>

\* h.ResetReadDir() on a directory handle
DoDirResetReadDir ==
    /\ h.kind = "dir"
    /\ h' = [h EXCEPT !.d = ResetReadDir(h.d)]
    /\ hist' = [hist EXCEPT !.ones = FALSE, !.got = <<>>, !.reset = TRUE]
    /\ ret' = HRet("Dir.ResetReadDir", <<>>, "nil", <<>>, <<>>, NoInfo, 0)
    /\ UNCHANGED <<input, made, cur, at, fetcher, run, param, other>>

\* Close on a directory handle that marks every directory handle closed
DoDirClose_everyHandle ==
    /\ h.kind = "dir"
    /\ LET r == dirClose(h.d)
       IN  /\ h' = [h EXCEPT !.d = r.d]
           /\ hist' = [hist EXCEPT !.closes = TRUE]
           /\ ret' = HRet("Dir.Close", <<>>, r.err, <<>>, <<>>, NoInfo, 0)
    /\ other' = IF other.h.kind = "dir"
                THEN [other EXCEPT !.h.d = dirClose(other.h.d).d]
                ELSE other
    /\ UNCHANGED <<input, made, cur, at, fetcher, run, param>>

\* h.Close() on a directory handle
DoDirClose ==
    /\ h.kind = "dir"
    /\ LET r == dirClose(h.d)
       IN  /\ h' = [h EXCEPT !.d = r.d]
           /\ hist' = [hist EXCEPT !.closes = TRUE]
           /\ ret' = HRet("Dir.Close", <<>>, r.err, <<>>, <<>>, NoInfo, 0)
    /\ UNCHANGED <<input, made, cur, at, fetcher, run, param, other>>

\* h.Read(buffer) on a file handle
DoFileRead ==
    /\ h.kind = "file"
    /\ \E rlen \in BufLens :
          LET r == fileRead(h.f, rlen)
          IN  /\ h' = [h EXCEPT !.f = r.f]
              /\ ret' = HRet("File.Read", rlen, r.err, <<>>, r.data, NoInfo, Len(r.data))
    /\ UNCHANGED <<input, made, cur, at, hist, fetcher, run, param, other>>

\* h.ReadAt(buffer, off) on a file handle
DoFileReadAt ==
    /\ h.kind = "file"
    /\ \E rlen \in BufLens, off \in Offsets :
          LET r == fileReadAt(h.f, rlen, off)
          IN  ret' = HRet("File.ReadAt", <<rlen, off>>, r.err, <<>>, r.data, NoInfo,
                          Len(r.data))
    /\ UNCHANGED <<input, made, cur, at, h, hist, fetcher, run, param, other>>

\* h.WriteTo(sink) on a file handle; the sink takes at most cap bytes
DoFileWriteTo ==
    /\ h.kind = "file"
    /\ h.f.ridx + Len(h.f.file.content) <= MaxRidx
    /\ \E cap \in BufLens :
          LET r == fileWriteTo(h.f, cap)
          IN  /\ h' = [h EXCEPT !.f = r.f]
              /\ ret' = HRet("File.WriteTo", cap, r.err, <<>>, r.data, NoInfo, Len(r.data))
    /\ UNCHANGED <<input, made, cur, at, hist, fetcher, run, param, other>>

\* h.Seek(offset, whence) on a file handle
DoFileSeek ==
    /\ h.kind = "file"
    /\ \E offset \in Offsets, whence \in Whences :
          LET r == fileSeek(h.f, offset, whence)
          IN  /\ h' = [h EXCEPT !.f = r.f]
              /\ ret' = HRet("File.Seek", <<offset, whence>>, r.err, <<>>, <<>>, NoInfo, r.n)
    /\ UNCHANGED <<input, made, cur, at, hist, fetcher, run, param, other>>

\* h.Stat() on a file handle
DoFileStat ==
    /\ h.kind = "file"
    /\ LET r == fileStat(h.f)
       IN  ret' = HRet("File.Stat", <<>>, r.err, <<>>, <<>>, r.info, 0)
    /\ UNCHANGED <<input, made, cur, at, h, hist, fetcher, run, param, other>>

\* h.Close() on a file handle
DoFileClose ==
    /\ h.kind = "file"
    /\ h' = [h EXCEPT !.f = fileClose(h.f)]
    /\ hist' = [hist EXCEPT !.closes = TRUE]
    /\ ret' = HRet("File.Close", <<>>, "nil", <<>>, <<>>, NoInfo, 0)
    /\ UNCHANGED <<input, made, cur, at, fetcher, run, param, other>>

\* the caller turns to the other handle it holds: the operations that
\* follow are called on it
DoSwitch ==
    /\ Built
    /\ h' = other.h
    /\ hist' = other.hist
    /\ other' = [h |-> h, hist |-> hist]
    /\ ret' = Ret("switch", <<>>, "nil", <<>>, <<>>, NoInfo, 0)
    /\ UNCHANGED <<input, made, cur, at, fetcher, run, param>>

\* ---------------------------------------------------------------------
\* Operations of dbfetch
\* ---------------------------------------------------------------------

\* the fetcher is not shared: it is configured between calls of Run
Configurable == run.pc \in {"idle", "done"}

\* f.UseStmt(p)
DoUseStmt ==
    /\ Configurable
    /\ \E p \in BOOLEAN : fetcher' = [fetcher EXCEPT !.asStmt = p]
    /\ UNCHANGED <<input, made, cur, at, h, hist, ret, run, param, other>>

\* f.ScanInto(ptrs...): without pointers dst is nil
DoScanInto ==
    /\ Configurable
    /\ \E ptrs \in {"nil", "set"} : fetcher' = [fetcher EXCEPT !.dst = ptrs]
    /\ UNCHANGED <<input, made, cur, at, h, hist, ret, run, param, other>>

\* f.Yield(yield) and f.YieldColumns(yield)
DoYield ==
    /\ Configurable
    /\ \E yield \in {"nil", "set"} : fetcher' = [fetcher EXCEPT !.yield = yield]
    /\ UNCHANGED <<input, made, cur, at, h, hist, ret, run, param, other>>

\* f.InitColumns(initCols)
DoInitColumns ==
    /\ Configurable
    /\ \E initCols \in {"nil", "user"} :
          fetcher' = [fetcher EXCEPT !.initCols = initCols]
    /\ UNCHANGED <<input, made, cur, at, h, hist, ret, run, param, other>>

\* Run, up to the query: the default initCols is set when neither initCols
\* nor dst is
RunBegin ==
    /\ Configurable
    /\ fetcher' = IF fetcher.initCols = "nil" /\ fetcher.dst = "nil"
                  THEN [fetcher EXCEPT !.initCols = "derive"]
                  ELSE fetcher
    /\ run' = [IdleRun EXCEPT !.f = fetcher',
                              !.pc = IF fetcher.asStmt THEN "prepare" ELSE "query"]
    /\ UNCHANGED <<input, made, cur, at, h, hist, ret, param, other>>

\* Run: f.db.PrepareContext
RunPrepare ==
    /\ run.pc = "prepare"
    /\ \E ok \in BOOLEAN :
          run' = IF ok
                 THEN [run EXCEPT !.stmt = TRUE, !.pc = "query",
                                  !.log = Append(@, Call("prepare", 0, TRUE))]
                 ELSE [run EXCEPT !.err = querror("prepare"), !.pc = "return",
                                  !.log = Append(@, Call("prepare", 0, FALSE))]
    /\ UNCHANGED <<input, made, cur, at, h, hist, ret, fetcher, param, other>>

\* Run: stmt.QueryContext or f.db.QueryContext; the result set has n rows
RunQuery ==
    /\ run.pc = "query"
    /\ \E ok \in BOOLEAN, n \in 0..MaxRows :
          run' = IF ok
                 THEN [run EXCEPT !.open = TRUE, !.rows = n, !.pc = "initCols",
                                  !.log = Append(@, Call("query", 0, TRUE))]
                 ELSE [run EXCEPT !.err = querror("query"), !.pc = "return",
                                  !.log = Append(@, Call("query", 0, FALSE))]
    /\ UNCHANGED <<input, made, cur, at, h, hist, ret, fetcher, param, other>>

\* the call of f.initCols with its error dropped
RunInitCols_errorDropped ==
    /\ run.pc = "initCols"
    /\ IF fetcher.initCols = "nil"
       THEN /\ run' = [run EXCEPT !.pc = "next"]
            /\ UNCHANGED fetcher
       ELSE \E ok \in BOOLEAN :
            /\ run' = [run EXCEPT !.pc = "next",
                                  !.log = Append(@, Call("initCols", 0, ok))]
            /\ fetcher' = IF ok /\ fetcher.initCols = "derive"
                          THEN [fetcher EXCEPT !.dst = "derived"]
                          ELSE fetcher
    /\ UNCHANGED <<input, made, cur, at, h, hist, ret, param, other>>

\* Run: f.initCols(rows.ColumnTypes()), which reports what it likes; the
\* default of deriveScan fails exactly when ColumnTypes does and sets dst
\* otherwise
RunInitCols ==
    /\ run.pc = "initCols"
    /\ IF fetcher.initCols = "nil"
       THEN /\ run' = [run EXCEPT !.pc = "next"]
            /\ UNCHANGED fetcher
       ELSE \E ok \in BOOLEAN :
            /\ run' = IF ok
                      THEN [run EXCEPT !.pc = "next",
                                       !.log = Append(@, Call("initCols", 0, TRUE))]
                      ELSE [run EXCEPT !.err = querror("initCols"), !.pc = "return",
                                       !.log = Append(@, Call("initCols", 0, FALSE))]
            /\ fetcher' = IF ok /\ fetcher.initCols = "derive"
                          THEN [fetcher EXCEPT !.dst = "derived"]
                          ELSE fetcher
    /\ UNCHANGED <<input, made, cur, at, h, hist, ret, param, other>>

\* Run: rows.Next() delivers the next row, or ends the iteration at the end
\* of the result set or on an error of the connection
RunNext ==
    /\ run.pc = "next"
    /\ \/ /\ run.i < run.rows
          /\ run' = [run EXCEPT !.i = @ + 1, !.pc = "scan"]
       \/ /\ run.i = run.rows
          /\ run' = [run EXCEPT !.pc = "rowsErr"]
       \/ /\ run.i < run.rows
          /\ run' = [run EXCEPT !.iterErr = plainErr("rows"), !.pc = "rowsErr"]
    /\ UNCHANGED <<input, made, cur, at, h, hist, ret, fetcher, param, other>>

\* Run: rows.Scan(f.dst...)
RunScan ==
    /\ run.pc = "scan"
    /\ \E ok \in BOOLEAN :
          run' = IF ok
                 THEN [run EXCEPT !.pc = IF fetcher.yield = "nil" THEN "next" ELSE "yield",
                                  !.log = Append(@, Call("scan", run.i, TRUE))]
                 ELSE [run EXCEPT !.err = plainErr("scan"), !.pc = "return",
                                  !.log = Append(@, Call("scan", run.i, FALSE))]
    /\ UNCHANGED <<input, made, cur, at, h, hist, ret, fetcher, param, other>>

\* Run: f.yield()
RunYield ==
    /\ run.pc = "yield"
    /\ \E ok \in BOOLEAN :
          run' = IF ok
                 THEN [run EXCEPT !.pc = "next",
                                  !.log = Append(@, Call("yield", run.i, TRUE))]
                 ELSE [run EXCEPT !.err = plainErr("yield"), !.pc = "return",
                                  !.log = Append(@, Call("yield", run.i, FALSE))]
    /\ UNCHANGED <<input, made, cur, at, h, hist, ret, fetcher, param, other>>

\* Run: err = rows.Err() after the loop
RunRowsErr ==
    /\ run.pc = "rowsErr"
    /\ run' = [run EXCEPT !.err = run.iterErr, !.pc = "return"]
    /\ UNCHANGED <<input, made, cur, at, h, hist, ret, fetcher, param, other>>

\* the deferred calls with the close error taking the place of the result
\* whatever it was
RunReturn_closeErrWins ==
    /\ run.pc = "return"
    /\ \E cok \in BOOLEAN :
          run' = IF run.open
                 THEN [run EXCEPT !.open = FALSE, !.stmt = FALSE, !.pc = "done",
                                  !.err = IF cok THEN NoErr ELSE plainErr("close"),
                                  !.log = Append(@, Call("close", 0, cok))]
                 ELSE [run EXCEPT !.stmt = FALSE, !.pc = "done"]
    /\ UNCHANGED <<input, made, cur, at, h, hist, ret, fetcher, param, other>>

\* Run returns: the deferred calls in reverse order, rows.Close (its error
\* is the result when there was none), stmt.Close and cancel
RunReturn ==
    /\ run.pc = "return"
    /\ \E cok \in BOOLEAN :
          run' = IF run.open
                 THEN [run EXCEPT !.open = FALSE, !.stmt = FALSE, !.pc = "done",
                                  !.err = IF run.err = NoErr /\ ~cok
                                          THEN plainErr("close") ELSE @,
                                  !.log = Append(@, Call("close", 0, cok))]
                 ELSE [run EXCEPT !.stmt = FALSE, !.pc = "done"]
    /\ UNCHANGED <<input, made, cur, at, h, hist, ret, fetcher, param, other>>

\* ---------------------------------------------------------------------
\* Operations of envflag
\* ---------------------------------------------------------------------

\* a parameter of an environment before its ARG and ENV are derived
InitEnv ==
    /\ input = <<>>
    /\ made = [err |-> "unbuilt", fs |-> NoFS]
    /\ cur = NoFS
    /\ at = <<>>
    /\ h = NoHandle
    /\ hist = NoHist
    /\ ret = NoRet
    /\ fetcher = Fetch
    /\ run = IdleRun
    /\ other = NoOther
    /\ \E prefix \in Prefixes, key \in Keys :
          param = [NoParam EXCEPT !.prefix = prefix, !.key = key]

\* parameters.Register derives the ARG, SetDefaults and Parameters the ENV
DoRegister ==
    /\ ~param.derived
    /\ param' = [param EXCEPT !.arg = keyToArg([prefix |-> param.prefix], param.key),
                              !.env = keyToEnv([prefix |-> param.prefix], param.key),
                              !.derived = TRUE]
    /\ UNCHANGED <<input, made, cur, at, h, hist, ret, fetcher, run, other>>

\* ---------------------------------------------------------------------
\* Specifications
\* ---------------------------------------------------------------------

\* construction and the whole-store queries
NextBuild == DoMakeMemFS \/ DoStat \/ DoReadFile

SpecBuild == Init /\ [][NextBuild]_vars

\* directory handles
NextDir ==
    \/ DoMakeMemFS \/ DoOpen
    \/ DoDirReadDir \/ DoDirRead \/ DoDirStat \/ DoDirSeek \/ DoDirClose

SpecDir == Init /\ [][NextDir]_vars

\* directory handles with ResetReadDir, the method beside those of
\* fs.ReadDirFile
NextDirReset == NextDir \/ DoDirResetReadDir

SpecDirReset == Init /\ [][NextDirReset]_vars

\* the entries of the stores on which two handles are held: "a/b" and "b"
SharedPool == { Entry(<<97, 47, 98>>, <<121>>), Entry(<<98>>, <<>>) }

\* MakeMemFS(files...) with entries of SharedPool
DoMakeShared == DoMakeMemFS /\ \A i \in 1..Len(input') : input'[i] \in SharedPool

\* two handles of either kind, held at the same time
NextHandles ==
    \/ DoMakeShared \/ DoOpen \/ DoSwitch
    \/ DoDirReadDir \/ DoDirRead \/ DoDirStat \/ DoDirSeek \/ DoDirClose
    \/ DoDirResetReadDir
    \/ DoFileRead \/ DoFileReadAt \/ DoFileWriteTo \/ DoFileSeek \/ DoFileStat \/ DoFileClose

SpecHandles == Init /\ [][NextHandles]_vars

\* file handles
NextFile ==
    \/ DoMakeMemFS \/ DoOpen
    \/ DoFileRead \/ DoFileReadAt \/ DoFileWriteTo \/ DoFileSeek \/ DoFileStat \/ DoFileClose

SpecFile == Init /\ [][NextFile]_vars

\* views
NextSub ==
    \/ DoMakeMemFS \/ DoSub
    \/ DoStat \/ DoReadFile \/ DoReadDir \/ DoGlob \/ DoOpen

SpecSub == Init /\ [][NextSub]_vars

\* every operation
Next ==
    \/ DoMakeMemFS \/ DoSub
    \/ DoStat \/ DoReadFile \/ DoReadDir \/ DoGlob \/ DoOpen
    \/ DoDirReadDir \/ DoDirRead \/ DoDirStat \/ DoDirSeek \/ DoDirClose
    \/ DoDirResetReadDir
    \/ DoFileRead \/ DoFileReadAt \/ DoFileWriteTo \/ DoFileSeek \/ DoFileStat \/ DoFileClose
    \/ DoSwitch

Spec == Init /\ [][Next]_vars

\* dbfetch: a fetcher is configured and run, again and again
NextFetch ==
    \/ DoUseStmt \/ DoScanInto \/ DoYield \/ DoInitColumns
    \/ RunBegin \/ RunPrepare \/ RunQuery \/ RunInitCols
    \/ RunNext \/ RunScan \/ RunYield \/ RunRowsErr \/ RunReturn

SpecFetch == Init /\ [][NextFetch]_vars

\* envflag: the ARG and the ENV of a parameter are derived
NextEnv == DoRegister

SpecEnv == InitEnv /\ [][NextEnv]_vars

\* increment as a pure function: the strings it is applied to
MaxIncLen == 3

\* the bytes of those strings: the lowest, the path separator, the two highest
IncBytes == {0, 47, 254, 255}

IncStrings == UNION { [1..n -> IncBytes] : n \in 0..MaxIncLen }

\* a string s increment has not been applied to yet
InitInc ==
    /\ \E s \in IncStrings : input = s
    /\ made = [err |-> "unbuilt", fs |-> NoFS]
    /\ cur = NoFS
    /\ at = <<>>
    /\ h = NoHandle
    /\ hist = NoHist
    /\ ret = NoRet
    /\ fetcher = Fetch
    /\ run = IdleRun
    /\ param = NoParam
    /\ other = NoOther

\* increment(input): ret.data is the string returned, ret.err = "nil" the ok
DoIncrement ==
    /\ ret = NoRet
    /\ LET r == increment(input)
       IN  ret' = Ret("increment", input, IF r.ok THEN "nil" ELSE "false",
                      <<>>, r.str, NoInfo, 0)
    /\ UNCHANGED <<input, made, cur, at, h, hist, fetcher, run, param, other>>

NextInc == DoIncrement

SpecInc == InitInc /\ [][NextInc]_vars

\* ---------------------------------------------------------------------
\* What the entries of a store mean (stated without the code's operators)
\* ---------------------------------------------------------------------

Names(fs) == { fs[i].name : i \in 1..Len(fs) }

\* p as a directory prefix: "" for the root, else ending in "/"
AsDir(p) == IF p = <<>> THEN p ELSE IF p[Len(p)] = 47 THEN p ELSE p \o <<47>>

\* p is a directory of the tree: the root, or some entry lies in or marks it
IsDirectory(fs, p) == p = <<>> \/ \E i \in 1..Len(fs) : HasPrefix(fs[i].name, AsDir(p))

\* the first segment of rest, with its "/" when more path follows
FirstSeg(rest) ==
    IF \E k \in 1..Len(rest) : rest[k] = 47
    THEN SubSeq(rest, 1, CHOOSE k \in 1..Len(rest) :
                            rest[k] = 47 /\ \A j \in 1..(k - 1) : rest[j] # 47)
    ELSE rest

\* the child of directory D that entry name n belongs to: <<name, isDir>>
ChildOf(D, n) ==
    LET seg == FirstSeg(SubSeq(n, Len(D) + 1, Len(n)))
    IN  IF seg[Len(seg)] = 47 THEN <<SubSeq(seg, 1, Len(seg) - 1), TRUE>> ELSE <<seg, FALSE>>

InSeq(x, sq) == \E i \in 1..Len(sq) : sq[i] = x

\* the immediate children of directory D (a directory prefix) in listing
\* order: each at the position of its first member in fs
RECURSIVE ChildrenFrom(_, _, _, _)
ChildrenFrom(fs, D, k, acc) ==
    IF k > Len(fs) THEN acc
    ELSE LET n == fs[k].name
         IN  IF HasPrefix(n, D) /\ n # D /\ ~InSeq(ChildOf(D, n), acc)
             THEN ChildrenFrom(fs, D, k + 1, Append(acc, ChildOf(D, n)))
             ELSE ChildrenFrom(fs, D, k + 1, acc)

Children(fs, D) == ChildrenFrom(fs, D, 1, <<>>)

\* what a list of directory entries shows: <<name, isDir>> of each
Shown(entries) == [i \in 1..Len(entries) |-> <<entries[i].name, entries[i].isDir>>]

\* two entries of fs have the same path
HasDuplicate(fs) == \E i, j \in 1..Len(fs) : i # j /\ fs[i].name = fs[j].name

\* some entry of fs has file path p while another entry's path starts with p/
HasCollision(fs) ==
    \E i, j \in 1..Len(fs) :
        /\ fs[i].name # <<>>
        /\ fs[i].name[Len(fs[i].name)] # 47
        /\ HasPrefix(fs[j].name, fs[i].name \o <<47>>)

\* the segments of a non-empty path without a trailing "/"
RECURSIVE GoodSegments(_)
GoodSegments(p) ==
    LET seg == FirstSeg(p)
    IN  IF seg[Len(seg)] = 47
        THEN /\ Len(seg) > 1
             /\ seg \notin {<<46, 47>>, <<46, 46, 47>>}
             /\ Len(seg) < Len(p)
             /\ GoodSegments(SubSeq(p, Len(seg) + 1, Len(p)))
        ELSE seg \notin {<<46>>, <<46, 46>>}

\* a non-empty entry path of the data model: "/"-separated, no leading "/",
\* no empty, "." or ".." segment; one trailing "/" marks a directory
GoodPath(p) ==
    /\ p # <<>>
    /\ IF p[Len(p)] = 47
       THEN Len(p) > 1 /\ GoodSegments(SubSeq(p, 1, Len(p) - 1))
       ELSE GoodSegments(p)

\* ---------------------------------------------------------------------
\* Construction and round trip (SpecBuild)
\* ---------------------------------------------------------------------

\* the contents the input gives for the path name
ContentsOf(name) == { input[i].content : i \in { j \in 1..Len(input) : input[j].name = name } }

\* C1 as stated: for every entry (path, content) of a successfully built
\* store's input, ReadFile(path) returns exactly content and Stat(path)
\* reports size = len(content).
C1_RoundTripEveryEntry ==
    /\ (ret.op = "ReadFile" /\ ContentsOf(ret.arg) # {})
          => (ret.err = "nil" /\ ContentsOf(ret.arg) = {ret.data})
    /\ (ret.op = "Stat" /\ ContentsOf(ret.arg) # {})
          => (ret.err = "nil" /\ \A c \in ContentsOf(ret.arg) : ret.info.size = Len(c))

\* C1 as amended: for every entry (path, content) of a successfully built
\* store's input, Stat(path) reports size = len(content), and ReadFile(path)
\* returns exactly content unless path is the empty root-directory marker.
C1_RoundTrip ==
    /\ (ret.op = "ReadFile" /\ ContentsOf(ret.arg) # {} /\ ret.arg # <<>>)
          => (ret.err = "nil" /\ ContentsOf(ret.arg) = {ret.data})
    /\ (ret.op = "Stat" /\ ContentsOf(ret.arg) # {})
          => (ret.err = "nil" /\ \A c \in ContentsOf(ret.arg) : ret.info.size = Len(c))

\* C1 witness: a two-byte content read back from a store built from three
\* entries that were not handed over in sorted order
C1_Witness ==
    /\ ret.op = "ReadFile" /\ ret.err = "nil" /\ Len(ret.data) = 2
    /\ ContentsOf(ret.arg) = {ret.data}
    /\ Len(input) = 3 /\ input # made.fs.files

\* C2: MakeMemFS fails for every input in which two entries have the same
\* path, or in which an entry has file path p while another entry's path
\* starts with p + "/", whatever else the input contains.
C2_CollisionsRejected ==
    (ret.op = "MakeMemFS" /\ (HasDuplicate(input) \/ HasCollision(input)))
        => ret.err # "nil"

\* C3: MakeMemFS succeeds for every input whose paths are valid, pairwise
\* distinct and free of file/directory collisions and whose directory
\* markers have empty content, also with two or more entries one of which
\* is a directory marker.
C3_ValidInputsAccepted ==
    (/\ ret.op = "MakeMemFS"
     /\ \A i \in 1..Len(input) :
           /\ GoodPath(input[i].name)
           /\ (input[i].name[Len(input[i].name)] = 47 => input[i].content = <<>>)
     /\ ~HasDuplicate(input)
     /\ ~HasCollision(input))
        => ret.err = "nil"

\* ---------------------------------------------------------------------
\* Directory handles (SpecDir)
\* ---------------------------------------------------------------------

\* the last operation was ReadDir on the handle h, which was not closed
OpenReadDir == ret.op = "Dir.ReadDir" /\ ~ret.closedBefore

\* the handle h was opened on a directory of the store
OnDirectory == h.kind = "dir" /\ IsDirectory(made.fs.files, h.abs)

\* the immediate children of the directory h was opened on
HKids == Children(made.fs.files, AsDir(h.abs))

\* what ReadDir had returned on h before the last call
GotBefore == SubSeq(hist.got, 1, Len(hist.got) - Len(ret.entries))

\* no entry's name merely begins with the path p
NoSiblingExtends(fs, p) ==
    \A i \in 1..Len(fs) : HasPrefix(fs[i].name, p) => HasPrefix(fs[i].name, AsDir(p))

\* no entry is a directory marker
NoMarkers(fs) ==
    \A i \in 1..Len(fs) : fs[i].name # <<>> /\ fs[i].name[Len(fs[i].name)] # 47

\* the elements of sq that are not elements of gone, in order
RECURSIVE Without(_, _)
Without(sq, gone) ==
    IF sq = <<>> THEN <<>>
    ELSE (IF InSeq(sq[1], gone) THEN <<>> ELSE <<sq[1]>>) \o Without(Tail(sq), gone)

\* C4: on a freshly opened handle of a directory with N children, repeated
\* ReadDir(1) returns child k on call k for k = 1..N, and call N+1 fails
\* with EOF.  Stated for the stores without directory markers and the
\* directories whose name no sibling's name extends, where the last child
\* may be a sub-directory holding several entries.
C4_OneByOneThenEOF ==
    (/\ OpenReadDir /\ hist.ones /\ OnDirectory
     /\ NoMarkers(made.fs.files) /\ NoSiblingExtends(made.fs.files, h.abs))
        => IF Len(GotBefore) < Len(HKids)
           THEN ret.err = "nil" /\ Shown(ret.entries) = <<HKids[Len(GotBefore) + 1]>>
           ELSE ret.err = "EOF" /\ ret.entries = <<>>

\* C5: on an open directory handle ReadDir(n) with n <= 0 returns exactly
\* the children not yet returned since the last reset, with no error (an
\* empty list when none remain).
C5_RestWithoutError ==
    (OpenReadDir /\ ret.arg <= 0 /\ OnDirectory)
        => /\ ret.err = "nil"
           /\ Shown(ret.entries) = Without(HKids, Shown(GotBefore))

\* C6: the entries returned over an enumeration of a directory of a
\* successfully built store have pairwise distinct names.
C6_DistinctNames ==
    (h.kind = "dir" /\ Built)
        => \A i, j \in 1..Len(hist.got) : i # j => hist.got[i].name # hist.got[j].name

\* C7: on an open directory handle Seek returns (0, no error) for every
\* offset and whence, and the next ReadDir(n <= 0) returns the full child
\* list from the beginning.
C7_SeekResets ==
    /\ (ret.op = "Dir.Seek" /\ ~ret.closedBefore) => (ret.n = 0 /\ ret.err = "nil")
    /\ (OpenReadDir /\ ret.resetBefore /\ ret.arg <= 0 /\ OnDirectory)
          => (ret.err = "nil" /\ Shown(ret.entries) = HKids)

\* the errors a closed directory handle answers with
ClosedDirErr(op) == IF op = "Dir.Stat" THEN "errStatClosed" ELSE "errClosed"

DirOps == {"Dir.Read", "Dir.ReadDir", "Dir.Seek", "Dir.Stat", "Dir.Close"}

FileOps == {"File.Read", "File.ReadAt", "File.WriteTo", "File.Seek", "File.Stat"}

\* C8: after Close on a file handle every later Read, ReadAt, WriteTo, Seek
\* and Stat fails with the closed error for every argument value, and every
\* later Close succeeds with no error.
C8_ClosedFileFails ==
    /\ (ret.op \in FileOps /\ ret.closedBefore) => ret.err = "ErrClosed"
    /\ (ret.op = "File.Close" /\ ret.closedBefore) => ret.err = "nil"

\* ---------------------------------------------------------------------
\* Views (SpecSub)
\* ---------------------------------------------------------------------

\* the path p of the store lies in the directory `at`
InView(p) == HasPrefix(p, at)

\* C10: the filesystem Sub returned for the directory `at` lists at its root
\* exactly the immediate children of `at`, and whatever Open, Stat,
\* ReadFile, ReadDir and Glob return on it has a path in the store that
\* starts with `at`.
C10_SubIsolated ==
    /\ Built => /\ cur.rootpath = at
                /\ \A i \in 1..Len(cur.files) :
                      HasPrefix(cur.files[i].name, at) /\ InSeq(cur.files[i], made.fs.files)
    /\ (ret.op = "ReadDir" /\ ret.arg = <<46>>)
          => (ret.err = "nil" /\ Shown(ret.entries) = Children(made.fs.files, at))
    /\ (ret.op = "ReadDir" /\ ret.err = "nil")
          => \A i \in 1..Len(ret.entries) : InView(ret.entries[i].path)
    /\ (ret.op = "Stat" /\ ret.err = "nil") => InView(ret.info.path)
    /\ (ret.op = "ReadFile" /\ ret.err = "nil")
          => \E i \in 1..Len(made.fs.files) :
                /\ made.fs.files[i].name = AbsPath(at, ret.arg)
                /\ made.fs.files[i].content = ret.data
    /\ (ret.op = "Glob" /\ ret.err = "nil")
          => \A i \in 1..Len(ret.entries) : InView(AbsPath(at, ret.entries[i]))
    /\ (ret.op = "Open" /\ ret.err = "nil")
          => /\ h.kind = "file" => (InView(h.f.file.name) /\ InSeq(h.f.file, made.fs.files))
             /\ h.kind = "dir"
                  => /\ HasPrefix(h.d.fs.rootpath, at)
                     /\ \A i \in 1..Len(h.d.fs.files) :
                           /\ HasPrefix(h.d.fs.files[i].name, at)
                           /\ InSeq(h.d.fs.files[i], made.fs.files)

\* C10 witness: the root of the view for "a/" lists two children while the
\* store holds an entry outside "a/"
C10_Witness ==
    /\ at = <<97, 47>>
    /\ ret.op = "ReadDir" /\ ret.arg = <<46>> /\ ret.err = "nil" /\ Len(ret.entries) = 2
    /\ \E i \in 1..Len(made.fs.files) : ~HasPrefix(made.fs.files[i].name, at)

\* ---------------------------------------------------------------------
\* Outcomes of Sub, Open, Stat, ReadFile and ReadDir
\* ---------------------------------------------------------------------

\* a path a caller may hand to the filesystem: "." or "" for the root of the
\* filesystem, else a path of the data model
ValidArg(p) == p = <<46>> \/ p = <<>> \/ GoodPath(p)

\* C11: Sub(path) fails with Invalid when path fails validation, fails with
\* NotExist when path is valid but names a file or nothing, and otherwise
\* returns the view of the directory; a failing call returns no view.
C11_SubOutcome ==
    [][ret'.op = "Sub" =>
          LET dir == ret'.arg
              p   == AbsPath(at, dir)
          IN  /\ ~ValidArg(dir) => ret'.err = "ErrInvalid"
              /\ (ValidArg(dir) /\ ~IsDirectory(made.fs.files, p))
                    => ret'.err = "ErrNotExist"
              /\ (ValidArg(dir) /\ IsDirectory(made.fs.files, p))
                    => (ret'.err = "nil" /\ cur'.rootpath = AsDir(p))
              /\ ret'.err # "nil" => cur' = cur]_vars

\* the path p of the store is neither the path of an entry nor a directory
Missing(p) == p \notin Names(made.fs.files) /\ ~IsDirectory(made.fs.files, p)

\* C12: Open(p) and Stat(p) fail with NotExist for every path p that is
\* neither the exact path of an entry nor a directory of the tree, also when
\* p is only a character-wise prefix of an entry's name.
C12_MissesAreNotExist ==
    (ret.op \in {"Open", "Stat"} /\ Missing(AbsPath(at, ret.arg)))
        => ret.err = "ErrNotExist"

\* C13: on a successfully built store no ReadDir, on the filesystem or on a
\* directory handle, at any page size and after any calls, fails with the
\* ChangedRoot consistency error.
C13_NoChangedRoot ==
    (ret.op \in {"ReadDir", "Dir.ReadDir"}) => ret.err # "errChangedRoot"

\* the contents the store holds for the path p
StoredAt(p) ==
    { made.fs.files[i].content : i \in { j \in 1..Len(made.fs.files) : made.fs.files[j].name = p } }

\* C14: ReadFile(p) returns the full content of the entry p names, fails
\* with NotExist when p names a directory (the root "." included) or
\* nothing, and changes neither the store nor the filesystem it is called on.
C14_ReadFileOutcome ==
    [][ret'.op = "ReadFile" =>
          LET p == AbsPath(at, ret'.arg)
          IN  /\ IF p # <<>> /\ StoredAt(p) # {}
                 THEN ret'.err = "nil" /\ StoredAt(p) = {ret'.data}
                 ELSE ret'.err = "ErrNotExist" /\ ret'.data = <<>>
              /\ made' = made /\ cur' = cur /\ at' = at]_vars

\* C14 witness: in the view of "a/", ReadFile(".") failed with NotExist
\* after the store was built from at least two entries
C14_Witness ==
    /\ ret.op = "ReadFile" /\ ret.arg = <<46>> /\ ret.err = "ErrNotExist"
    /\ at = <<97, 47>> /\ Len(made.fs.files) >= 2

\* ---------------------------------------------------------------------
\* Order of the entry sequence
\* ---------------------------------------------------------------------

\* a sorts before b byte-wise, or a = b
LexLeq(a, b) ==
    \/ HasPrefix(b, a)
    \/ \E k \in 1..Min(Len(a), Len(b)) :
          /\ \A j \in 1..(k - 1) : a[j] = b[j]
          /\ a[k] < b[k]

\* the entries of fs are in ascending order of path
Ascending(fs) == \A i \in 1..(Len(fs) - 1) : LexLeq(fs[i].name, fs[i + 1].name)

\* sub is a contiguous, order-preserving sub-range of parent
SubRange(sub, parent) ==
    \E lo \in 0..(Len(parent) - Len(sub)) : sub = SubSeq(parent, lo + 1, lo + Len(sub))

\* C15: the entry sequence of every store is sorted ascending by path, and
\* so is every view that Sub or Open derives; each view is a contiguous
\* sub-range, in the same order, of the sequence it was derived from.
C15_SortedViews ==
    [][/\ Built' => (Ascending(made'.fs.files) /\ Ascending(cur'.files))
       /\ (ret'.op = "Sub" /\ ret'.err = "nil") => SubRange(cur'.files, cur.files)
       /\ (ret'.op = "Open" /\ ret'.err = "nil" /\ h'.kind = "dir")
             => (Ascending(h'.d.fs.files) /\ SubRange(h'.d.fs.files, cur.files))]_vars

\* C15 witness: a view of two entries, derived by Sub from a store of
\* three entries
C15_Witness ==
    /\ ret.op = "Sub" /\ ret.err = "nil" /\ at # <<>>
    /\ Len(cur.files) = 2 /\ Len(made.fs.files) = 3

\* ---------------------------------------------------------------------
\* Glob
\* ---------------------------------------------------------------------

\* the directory prefixes of the path n (each ending in "/") longer than D
DirsOf(n, D) == { SubSeq(n, 1, k) : k \in { j \in (Len(D) + 1)..Len(n) : n[j] = 47 } }

\* the paths of the sub-tree below the directory prefix D, in the internal
\* form: the entries below D and the directories they imply
TreePaths(fs, D) ==
    UNION { {fs[i].name} \cup DirsOf(fs[i].name, D) :
            i \in { j \in 1..Len(fs) : HasPrefix(fs[j].name, D) /\ fs[j].name # D } }

\* the paths of the set S in ascending order
RECURSIVE AscendingSeq(_)
AscendingSeq(S) ==
    IF S = {} THEN <<>>
    ELSE LET m == CHOOSE x \in S : \A y \in S : LexLeq(x, y)
         IN  <<m>> \o AscendingSeq(S \ {m})

\* the path p below D as the caller sees it: relative to D, no trailing "/"
Relative(p, D) ==
    LET r == SubSeq(p, Len(D) + 1, Len(p))
    IN  IF r[Len(r)] = 47 THEN SubSeq(r, 1, Len(r) - 1) ELSE r

\* the elements of sq, in order, that match the pattern
RECURSIVE Matching(_, _)
Matching(sq, pattern) ==
    IF sq = <<>> THEN <<>>
    ELSE (IF pathMatch(pattern, Head(sq)) THEN <<Head(sq)>> ELSE <<>>)
         \o Matching(Tail(sq), pattern)

\* what Glob has to return on the filesystem of the directory prefix D
GlobOf(fs, D, pattern) ==
    LET all == AscendingSeq(TreePaths(fs, D))
    IN  Matching([i \in 1..Len(all) |-> Relative(all[i], D)], pattern)

\* C16: Glob(pattern) returns, relative to the root of the filesystem it is
\* called on, every file path and every implied directory path of its
\* sub-tree that matches the pattern, each once, in ascending walk order.
C16_GlobMatches ==
    ret.op = "Glob" => (ret.err = "nil" /\ ret.entries = GlobOf(made.fs.files, at, ret.arg))

\* ---------------------------------------------------------------------
\* File handles (SpecFile)
\* ---------------------------------------------------------------------

\* the content behind the file handle and its bytes from offset k on
HContent == h.f.file.content
HFrom(k) == SubSeq(HContent, k + 1, Len(HContent))

\* the step is the operation op on a file handle that was open before it
OnOpenFile(op) == ret'.op = op /\ h.kind = "file" /\ ~hist.closes

\* C17: WriteTo on an open file handle whose cursor is at offset k writes
\* exactly content[k:] to a sink that accepts it and advances the cursor by
\* the number of bytes written.
C17_WriteToFromCursor ==
    [][(OnOpenFile("File.WriteTo") /\ ret'.err = "nil") =>
          /\ ret'.data = HFrom(h.f.ridx)
          /\ h'.f.ridx = h.f.ridx + Len(ret'.data)]_vars

\* C18: on an open file handle with cursor k, Read into a buffer of size b
\* returns (0, EOF) when k >= len(content) and otherwise copies
\* min(b, len(content) - k) bytes starting at content[k] and advances the
\* cursor by exactly that count.
C18_ReadFromCursor ==
    [][OnOpenFile("File.Read") =>
          LET k == h.f.ridx
              b == ret'.arg
              n == IF b < Len(HContent) - k THEN b ELSE Len(HContent) - k
          IN  IF k >= Len(HContent)
              THEN ret'.err = "EOF" /\ ret'.n = 0 /\ ret'.data = <<>> /\ h'.f.ridx = k
              ELSE /\ ret'.err = "nil"
                   /\ ret'.n = n
                   /\ ret'.data = SubSeq(HContent, k + 1, k + n)
                   /\ h'.f.ridx = k + n]_vars

\* C18 witness: a Read delivered the second byte of a two-byte content and
\* left the cursor at the end
C18_Witness ==
    /\ ret.op = "File.Read" /\ ret.err = "nil" /\ ~ret.closedBefore
    /\ Len(HContent) = 2 /\ ret.data = <<HContent[2]>> /\ h.f.ridx = 2

\* C19: ReadAt leaves the read cursor and the closed flag of the handle as
\* they were, whatever its outcome, and its result does not depend on the
\* cursor: on an open handle it fails for a negative offset, fails with
\* UnexpectedEOF for an offset beyond the content length, and otherwise
\* copies the available bytes at the offset, with EOF iff they were fewer
\* than the buffer size.
C19_ReadAtOutcome ==
    [][ret'.op = "File.ReadAt" =>
          /\ h' = h
          /\ (h.kind = "file" /\ ~hist.closes) =>
                LET b   == ret'.arg[1]
                    off == ret'.arg[2]
                    n   == IF b < Len(HContent) - off THEN b ELSE Len(HContent) - off
                IN  IF off < 0
                    THEN ret'.err = "errNegativeOffset" /\ ret'.data = <<>>
                    ELSE IF off > Len(HContent)
                    THEN ret'.err = "ErrUnexpectedEOF" /\ ret'.data = <<>>
                    ELSE /\ ret'.data = SubSeq(HContent, off + 1, off + n)
                         /\ ret'.err = IF n < b THEN "EOF" ELSE "nil"]_vars

\* C19 witness: with the cursor at 1, ReadAt at offset 0 delivered both
\* bytes of a two-byte content
C19_Witness ==
    /\ ret.op = "File.ReadAt" /\ ret.arg = <<2, 0>> /\ ret.err = "nil"
    /\ Len(HContent) = 2 /\ ret.data = HContent /\ h.f.ridx = 1

\* the target of Seek(offset, whence) from cursor k: relative to the start
\* (whence 0), the cursor (1) or the end of the content (2)
SeekTarget(k, offset, whence) ==
    IF whence = 0 THEN offset
    ELSE IF whence = 1 THEN k + offset
    ELSE Len(HContent) + offset

\* C20: Seek on an open file handle fails with Invalid and leaves the cursor
\* unchanged if whence is unrecognized or the target is negative or exceeds
\* the content length; otherwise it sets the cursor to the target and
\* returns it.
C20_SeekOutcome ==
    [][OnOpenFile("File.Seek") =>
          LET k      == h.f.ridx
              whence == ret'.arg[2]
              target == SeekTarget(k, ret'.arg[1], whence)
          IN  IF whence \notin {0, 1, 2} \/ target < 0 \/ target > Len(HContent)
              THEN ret'.err = "ErrInvalid" /\ h'.f.ridx = k
              ELSE ret'.err = "nil" /\ ret'.n = target /\ h'.f.ridx = target]_vars

\* C20 witness: Seek(-1, end) on a two-byte content set the cursor to 1
C20_Witness ==
    /\ ret.op = "File.Seek" /\ ret.arg = <<-1, 2>> /\ ret.err = "nil"
    /\ ~ret.closedBefore /\ Len(HContent) = 2 /\ ret.n = 1 /\ h.f.ridx = 1

\* ---------------------------------------------------------------------
\* Metadata
\* ---------------------------------------------------------------------

\* the last segment of the non-empty path p, a trailing "/" set aside
LastSeg(p) ==
    LET q == IF p[Len(p)] = 47 THEN SubSeq(p, 1, Len(p) - 1) ELSE p
        S == { k \in 1..Len(q) : q[k] = 47 }
        s == IF S = {} THEN 0 ELSE CHOOSE k \in S : \A j \in S : j <= k
    IN  SubSeq(q, s + 1, Len(q))

\* p is the path of an entry that is a file: no marker and no directory
IsFile(fs, p) ==
    /\ p \in Names(fs)
    /\ p[Len(p)] # 47
    /\ ~IsDirectory(fs, p)

\* p is a directory, explicit or implied, and not also the path of a file
IsOnlyDirectory(fs, p) ==
    /\ IsDirectory(fs, p)
    /\ (p = <<>> \/ p[Len(p)] = 47 \/ p \notin Names(fs))

\* C21: Stat(p) reports for a file entry is-directory = false, the file
\* mode, size = content length and name = last segment of p, and for a
\* directory, explicit or implied, is-directory = true, the directory mode,
\* size 0 and name = last segment of p.
C21_StatReports ==
    (ret.op = "Stat" /\ ret.arg # <<>>) =>
        LET p == AbsPath(at, ret.arg)
        IN  /\ (p # <<>> /\ IsFile(made.fs.files, p)) =>
                  /\ ret.err = "nil"
                  /\ ~ret.info.isDir
                  /\ ret.info.mode = [dir |-> FALSE, perm |-> 416]
                  /\ \A c \in StoredAt(p) : ret.info.size = Len(c)
                  /\ ret.info.name = LastSeg(ret.arg)
            /\ IsOnlyDirectory(made.fs.files, p) =>
                  /\ ret.err = "nil"
                  /\ ret.info.isDir
                  /\ ret.info.mode = [dir |-> TRUE, perm |-> 488]
                  /\ ret.info.size = 0
                  /\ ret.info.name = LastSeg(ret.arg)

\* ---------------------------------------------------------------------
\* Directory handles (SpecDir)
\* ---------------------------------------------------------------------

\* C22: Read on an open directory handle fails with the is-a-directory
\* error, returns 0 bytes and leaves the handle, its iteration cursor
\* included, as it was.
C22_DirReadFails ==
    [][(ret'.op = "Dir.Read" /\ h.kind = "dir" /\ ~hist.closes) =>
          /\ ret'.err = "EISDIR"
          /\ ret'.n = 0 /\ ret'.data = <<>>
          /\ h' = h]_vars

\* C22 witness: Read failed with is-a-directory on a handle whose
\* enumeration had delivered one entry and had a second one to go
C22_Witness ==
    /\ ret.op = "Dir.Read" /\ ret.err = "EISDIR" /\ ~ret.closedBefore
    /\ Len(hist.got) = 1 /\ OnDirectory /\ Len(HKids) = 2

\* ---------------------------------------------------------------------
\* dbfetch (SpecFetch)
\* ---------------------------------------------------------------------

\* where in the log of the Run the calls of one kind are
CallsOf(ev) == { j \in 1..Len(run.log) : run.log[j].ev = ev }
RowCalls == CallsOf("scan") \cup CallsOf("yield")
QueryOk == \E j \in CallsOf("query") : run.log[j].ok
Running == run.pc # "idle"
Returned == run.pc = "done"

\* C23: in a Run whose fetcher has a column-initialisation function, that
\* function is called at most once, only after the query succeeded and
\* before every Scan and every yield, and exactly once by the time Run
\* returns after a successful query; when it reports an error no row is
\* scanned or yielded and Run returns an error.
C23_InitColumnsOnce ==
    (Running /\ run.f.initCols # "nil") =>
        /\ Cardinality(CallsOf("initCols")) <= 1
        /\ \A j \in CallsOf("initCols") :
              \E q \in CallsOf("query") : q < j /\ run.log[q].ok
        /\ \A r \in RowCalls :
              \E j \in CallsOf("initCols") : j < r /\ run.log[j].ok
        /\ (Returned /\ QueryOk) => Cardinality(CallsOf("initCols")) = 1
        /\ \A j \in CallsOf("initCols") :
              ~run.log[j].ok =>
                  /\ RowCalls = {}
                  /\ Returned => run.err # NoErr

\* a Run returned whose column-initialisation function reported an error
C23_Witness ==
    /\ Returned /\ run.f.initCols = "user" /\ run.rows = MaxRows
    /\ \E j \in CallsOf("initCols") : ~run.log[j].ok
    /\ run.err = querror("initCols")

\* the calls of one kind in the order they were made
RECURSIVE callSeq(_, _)
callSeq(log, ev) ==
    IF log = <<>> THEN <<>>
    ELSE (IF log[1].ev = ev THEN <<log[1]>> ELSE <<>>) \o callSeq(Tail(log), ev)

\* the calls of the sequence are for the rows 1, 2, 3,... in this order
InRowOrder(calls) == \A k \in 1..Len(calls) : calls[k].row = k

\* C24: in a Run whose fetcher has a yield function, Scan is called for the
\* rows in order, once each, and yield is called once for every row right
\* after the successful Scan of that row; a failed Scan or yield is the
\* last such call and its error is what Run returns; and when Run returns
\* after a successful query the rows have been closed, once.
C24_YieldPerRow ==
    (Running /\ run.f.yield # "nil") =>
        /\ InRowOrder(callSeq(run.log, "scan"))
        /\ InRowOrder(callSeq(run.log, "yield"))
        /\ Len(callSeq(run.log, "scan")) \in {run.i, run.i - 1}
        /\ \A j \in CallsOf("yield") :
              /\ j > 1
              /\ run.log[j - 1] = Call("scan", run.log[j].row, TRUE)
        /\ \A j \in CallsOf("scan") :
              (run.log[j].ok /\ (run.pc \notin {"yield"} \/ j < Len(run.log))) =>
                  /\ j < Len(run.log)
                  /\ run.log[j + 1].ev = "yield"
        /\ \A j \in RowCalls :
              ~run.log[j].ok =>
                  /\ \A k \in RowCalls : k <= j
                  /\ Returned => run.err = plainErr(run.log[j].ev)
        /\ (Returned /\ run.err = NoErr) =>
              Len(callSeq(run.log, "yield")) = run.rows
        /\ Returned =>
              /\ Len(callSeq(run.log, "scan")) = run.i
              /\ ~run.open
              /\ Cardinality(CallsOf("close")) = IF QueryOk THEN 1 ELSE 0
              /\ QueryOk => run.log[Len(run.log)].ev = "close"

\* a Run returned whose yield function failed on the last of the rows
\* after it had been called for the rows before
C24_Witness ==
    /\ Returned /\ run.f.yield = "set" /\ run.rows = MaxRows
    /\ Len(callSeq(run.log, "yield")) = MaxRows
    /\ run.err = plainErr("yield")
    /\ \E j \in CallsOf("close") : ~run.log[j].ok

\* ---------------------------------------------------------------------
\* envflag (SpecEnv)
\* ---------------------------------------------------------------------

\* every byte of s is in the set
OnlyBytes(s, set) == \A i \in 1..Len(s) : s[i] \in set

\* C25: the ARG derived from a parameter key has lower-case English
\* letters, digits and "-" only, and the ENV derived from it has upper-case
\* English letters, digits and "_" only.
C25_ArgAndEnvAlphabet ==
    param.derived =>
        /\ OnlyBytes(param.arg, (97..122) \cup (48..57) \cup {45})
        /\ OnlyBytes(param.env, (65..90) \cup (48..57) \cup {95})

\* ---------------------------------------------------------------------
\* Directory handles: bounded requests (SpecDir)
\* ---------------------------------------------------------------------

\* C26: ReadDir(n) with n > 0 on an open directory handle that returns no
\* error returns at least one entry; with no entry to return it fails.
C26_NoEmptyPage ==
    (OpenReadDir /\ ret.arg > 0 /\ ret.err = "nil") => ret.entries # <<>>

\* ---------------------------------------------------------------------
\* Listing a directory (SpecSub)
\* ---------------------------------------------------------------------

\* the set of the elements of a sequence
Range(sq) == { sq[i] : i \in 1..Len(sq) }

\* a path that names a directory without the trailing "/" of a marker
DirArg(p) == ValidArg(p) /\ (p = <<>> \/ p[Len(p)] # 47)

\* C27: ReadDir(d) for a directory path d returns, with no error, one
\* entry for every distinct first segment that follows d/ among the entry
\* paths starting with d/ (a directory entry when more path follows the
\* segment, a file entry otherwise), no entry twice and no other entry.
C27_ReadDirChildren ==
    (/\ ret.op = "ReadDir" /\ DirArg(ret.arg)
     /\ IsDirectory(made.fs.files, AbsPath(at, ret.arg)))
        => LET kids == Children(made.fs.files, AsDir(AbsPath(at, ret.arg)))
           IN  /\ ret.err = "nil"
               /\ Range(Shown(ret.entries)) = Range(kids)
               /\ Len(ret.entries) = Len(kids)

\* ---------------------------------------------------------------------
\* walk (SpecBuild)
\* ---------------------------------------------------------------------

\* a sorts strictly before b
LexLess(a, b) == a # b /\ LexLeq(a, b)

\* the paths fn has to be called with for the entries fs: the path of
\* every entry and every directory path they imply
WalkPaths(fs) ==
    UNION { {fs[i].name} \cup DirsOf(fs[i].name, <<>>) : i \in 1..Len(fs) }

\* MakeMemFS has handed its sorted entries to walk: the names are valid,
\* there are at least two entries, and no two have the same path
Walked ==
    /\ ret.op = "MakeMemFS" /\ Len(input) > 1
    /\ validateFrom(input, 1) = "nil" /\ ~HasDuplicate(input)

\* C28: walk over the sorted entries calls fn with the path of every entry
\* and with every directory path the entries imply, with nothing else, and
\* in strictly ascending order, so with no path twice.
C28_WalkOncePerPath ==
    Walked =>
        LET calls == walk(<<>>, SortStable(input))
        IN  /\ Range(calls) = WalkPaths(input)
            /\ \A k \in 1..(Len(calls) - 1) : LexLess(calls[k], calls[k + 1])

\* ---------------------------------------------------------------------
\* The read cursor (SpecFile)
\* ---------------------------------------------------------------------

\* C29: the read cursor of an open file handle is within 0..len(content)
\* whatever was called on the handle, and Seek(0, current) on an open
\* handle succeeds and returns the cursor.
C29_CursorInContent ==
    (h.kind = "file" /\ ~hist.closes) =>
        /\ h.f.ridx \in 0..Len(HContent)
        /\ (ret.op = "File.Seek" /\ ret.arg = <<0, 1>>) =>
              (ret.err = "nil" /\ ret.n = h.f.ridx)

\* ---------------------------------------------------------------------
\* Closed directory handles (SpecDirReset)
\* ---------------------------------------------------------------------

\* the next step is the operation op on the directory handle h, which is
\* closed
OnClosedDir(op) == h.kind = "dir" /\ closed(h.d) /\ ret'.op = op

\* C30 as stated: a closed directory handle is closed after every
\* operation on it, ResetReadDir included, and returns no entries.
C30_StaysClosed ==
    [][\A op \in DirOps \cup {"Dir.ResetReadDir"} :
          OnClosedDir(op) => (closed(h'.d) /\ ret'.entries = <<>>)]_vars

\* C30: a closed directory handle is closed after every Stat, Read, Seek,
\* Close and ReadDir on it, which fail with the already-closed error and
\* return no entries; ResetReadDir reopens it with the cursor at the start.
C30_ClosedUntilReset ==
    [][/\ \A op \in DirOps :
             OnClosedDir(op) =>
                 /\ closed(h'.d) /\ h' = h
                 /\ ret'.err = ClosedDirErr(op) /\ ret'.entries = <<>>
       /\ OnClosedDir("Dir.ResetReadDir") =>
             (~closed(h'.d) /\ h'.d.dc = ZeroCursor /\ h'.d.fs = h.d.fs)]_vars

\* ReadDir returned entries on a handle that had been closed
C30_Witness ==
    /\ ret.op = "Dir.ReadDir" /\ ret.closedBefore
    /\ ret.err = "nil" /\ Len(ret.entries) = 2 /\ OnDirectory

\* ---------------------------------------------------------------------
\* Agreement of the operations (SpecSub)
\* ---------------------------------------------------------------------

\* what each operation makes of the path p on the filesystem m
StatSaysDir(m, p) == Stat(m, p).err = "nil" /\ Stat(m, p).info.isDir
OpenSaysDir(m, p) == Open(m, p).err = "nil" /\ Open(m, p).kind = "dir"
ReadDirSaysDir(m, p) == ReadDir(m, p).err = "nil"
SubSaysDir(m, p) == Sub(m, p).err = "nil"

\* C31: for the path p that Stat was called with, Stat reports a directory
\* iff Open returns a directory handle iff ReadDir succeeds iff Sub
\* succeeds, on the store and on every view.
C31_DirectoryAgreement ==
    ret.op = "Stat" =>
        /\ (ret.err = "nil" /\ ret.info.isDir) = StatSaysDir(cur, ret.arg)
        /\ StatSaysDir(cur, ret.arg) = OpenSaysDir(cur, ret.arg)
        /\ OpenSaysDir(cur, ret.arg) = ReadDirSaysDir(cur, ret.arg)
        /\ ReadDirSaysDir(cur, ret.arg) = SubSaysDir(cur, ret.arg)

\* ---------------------------------------------------------------------
\* Order of a directory listing (SpecSub)
\* ---------------------------------------------------------------------

\* C32: the entries a successful ReadDir returns are in ascending order of
\* their names.
C32_ReadDirSorted ==
    (ret.op = "ReadDir" /\ ret.err = "nil") =>
        \A k \in 1..(Len(ret.entries) - 1) :
            LexLeq(ret.entries[k].name, ret.entries[k + 1].name)

\* ---------------------------------------------------------------------
\* Composition of Sub (SpecSub)
\* ---------------------------------------------------------------------

\* the name of a directory below the root of a filesystem
DirName(p) == GoodPath(p) /\ p[Len(p)] # 47

\* the filesystems m1 and m2 answer ReadDir, ReadFile and Stat alike
SameAnswers(m1, m2) ==
    \A q \in QueryPaths :
        /\ ReadDir(m1, q) = ReadDir(m2, q)
        /\ ReadFile(m1, q) = ReadFile(m2, q)
        /\ Stat(m1, q) = Stat(m2, q)

\* C33: when Sub(b) succeeds on a filesystem, ReadFile(q) on the view
\* equals ReadFile(b/q) on the filesystem for every q; and when the
\* filesystem is itself the view of the directory a of the store, Sub(b)
\* on it succeeds exactly when Sub(a/b) on the store does, and the two
\* views give the same ReadDir, ReadFile and Stat results.
C33_SubComposes ==
    [][(ret'.op = "Sub" /\ DirName(ret'.arg)) =>
          LET b  == ret'.arg
              ab == Sub(made.fs, at \o b)
          IN  /\ ret'.err = "nil" =>
                    \A q \in QueryPaths :
                        ReadFile(cur', q) = ReadFile(cur, b \o <<47>> \o q)
              /\ at # <<>> =>
                    /\ (ret'.err = "nil") = (ab.err = "nil")
                    /\ ret'.err = "nil" => SameAnswers(ab.fs, cur')]_vars

\* Sub(b) succeeded on the view of a and the view of a/b holds an entry
C33_Witness ==
    /\ ret.op = "Sub" /\ ret.err = "nil" /\ ret.arg = <<98>>
    /\ at = <<97, 47, 98, 47>> /\ cur.files # <<>>
    /\ ReadFile(cur, <<97>>).err = "nil"

\* ---------------------------------------------------------------------
\* Two handles (SpecHandles)
\* ---------------------------------------------------------------------

\* the step is an operation on the handle h
HandleOp == ret'.op \in DirOps \cup FileOps \cup {"Dir.ResetReadDir", "File.Close"}

\* C34: an operation on a handle leaves the store, its entries and its
\* rootpath as they are, leaves the other handle with its cursor and closed
\* flag as it is, and changes nothing of its own handle but the cursor and
\* the closed flag: the kind, the path, the view of a directory handle and
\* the entry of a file handle stay.
C34_HandleFrame ==
    [][HandleOp =>
          /\ made' = made /\ cur' = cur /\ at' = at
          /\ other'.h = other.h
          /\ h'.kind = h.kind /\ h'.abs = h.abs
          /\ h'.d.fs = h.d.fs
          /\ h'.f.file = h.f.file /\ h'.f.name = h.f.name]_vars

\* a directory handle was closed while the other handle on the same
\* directory is open in the middle of its enumeration
C34_Witness ==
    /\ ret.op = "Dir.Close" /\ ret.err = "nil" /\ closed(h.d)
    /\ other.h.kind = "dir" /\ other.h.abs = h.abs
    /\ other.h.d.dc.idx = 1 /\ Len(other.hist.got) = 1
    /\ Len(other.h.d.fs.files) = 2

\* ---------------------------------------------------------------------
\* The root of a filesystem (SpecSub)
\* ---------------------------------------------------------------------

\* C35: on the store and on every view, Stat(".") reports a directory
\* named ".", and so does Stat on the handle that Open(".") returned.
C35_RootIsDot ==
    /\ (ret.op = "Stat" /\ ret.arg = <<46>>) =>
          (ret.err = "nil" /\ ret.info.isDir /\ ret.info.name = <<46>>)
    /\ (ret.op = "Open" /\ ret.arg = <<46>>) =>
          /\ ret.err = "nil" /\ h.kind = "dir"
          /\ dirStat(h.d).err = "nil"
          /\ dirStat(h.d).info.isDir /\ dirStat(h.d).info.name = <<46>>

\* ---------------------------------------------------------------------
\* C36: increment
\* ---------------------------------------------------------------------

\* every byte of s is 0xFF (true of the empty string)
AllFF(s) == \A i \in 1..Len(s) : s[i] = 255

\* t is s plus one as a big-endian number of the same length: the byte at
\* some position k is one higher, the bytes before k are equal, and the
\* bytes after k carried from 0xFF to 0
PlusOne(s, t) ==
    /\ Len(t) = Len(s)
    /\ \E k \in 1..Len(s) :
          /\ t[k] = s[k] + 1
          /\ \A j \in 1..(k - 1) : t[j] = s[j]
          /\ \A j \in (k + 1)..Len(s) : s[j] = 255 /\ t[j] = 0

\* the strings with the prefix s that are up to MaxIncLen bytes longer
Extensions(s) == { s \o e : e \in IncStrings }

\* what increment has to return for s
IncrementSpec(s, t, ok) ==
    /\ ok = ~AllFF(s)
    /\ ~ok => t = s
    /\ ok => /\ PlusOne(s, t)
             /\ LexLess(s, t)
             /\ \A u \in Extensions(s) : LexLess(u, t)

\* C36: increment(s) returns (s, false) exactly when every byte of s is 0xFF,
\* the empty string included, and otherwise (t, true) where t is s plus one
\* as a big-endian number of the same length, greater than s and than every
\* string with the prefix s
C36_Increment ==
    ret.op = "increment" => IncrementSpec(ret.arg, ret.data, ret.err = "nil")

====
